---------------------------- MODULE Spec2Model ----------------------------
(***************************************************************************)
(* A model of the fledge build pipelines (volantvm/fledge).                *)
(*                                                                         *)
(*   Spec           one run of InitramfsBuilder.Build or                   *)
(*                  OCIRootfsBuilder.Build, step by step, with every       *)
(*                  external tool free to fail, and the signal goroutine   *)
(*                  of setupSignalHandling running beside it.              *)
(*   SpecChecksum   initramfs builds whose busybox or agent checksum is    *)
(*                  any short string.                                      *)
(*   SpecSymlink    installAgent in detail, over a rootfs whose /bin is    *)
(*                  absent, a directory, a file or any short symlink.      *)
(*   SpecMappings   two builds applying one [mappings] table.              *)
(*   SpecInitramfs  initramfs builds by either InitramfsBuilder.Build, of  *)
(*                  an image with or without /init, with or without a     *)
(*                  mapping to /init.                                      *)
(*   SpecConfig     config.Load of a recipe, and of the recipe it returns. *)
(*   SpecFileMode   DetermineFileMode of a regular file.                   *)
(*   SpecCopyTree   a mapping whose source tree holds symlinks.            *)
(*   SpecSizing     createImageFile, createFilesystem and shrinkFilesystem  *)
(*                  of an ext4 image, in numbers.                          *)
(*   SpecTwoBuilds  two ext4 builds at once on one kernel, command by      *)
(*                  command.                                               *)
(*   SpecAgent      SourceAgent (local) and CleanupAgent on a disk with    *)
(*                  symlinks.                                              *)
(***************************************************************************)
EXTENDS Integers, Sequences, FiniteSets, TLC

VARIABLES
    cfg,            \* the recipe (config.Config) and builder inputs, frozen
    pc,             \* position of Build: "Build", a step, a deferred call, "returned"
    ran,            \* steps started so far, in order
    failed,         \* <<step, cause>> of every step that returned an error
    result,         \* what Build returned
    scratch,        \* scratch files and directories of this build now on disk
    RootfsReady,    \* OCIRootfsBuilder.RootfsReady
    MountPoint,     \* OCIRootfsBuilder.MountPoint ("" until Build sets it)
    LoopDevicePath, \* OCIRootfsBuilder.LoopDevicePath
    sysLoop,        \* loop devices the kernel has attached
    sysMounted,     \* mount points the kernel has mounted
    image,          \* state of the scratch image file (b.ImagePath)
    rootfs,         \* what the staged rootfs holds: entry -> content
    output,         \* bytes at b.OutputPath ("absent" when no file)
    manifest,       \* checksum in <OutputPath>.manifest.json (<<>> when no file)
    ctxCancelled,   \* the context of setupSignalHandling is cancelled
    cancelledAt,    \* the step that was about to run when it was cancelled
    bin,            \* what <rootfs>/bin is: absent, dir, file, or symlink and target
    dirs,           \* directories that exist, host and rootfs, as absolute paths
    written,        \* files installAgent has created or truncated
    symPc,          \* position inside installAgent
    symErr,         \* the error installAgent returned
    mappings,       \* Config.Mappings: source -> destination
    staged,         \* per build, the rootfs after applyMappings
    recipe,         \* the Config that toml.Unmarshal produced from fledge.toml
    loaded,         \* what Load returned for it
    reloaded,       \* what Load returned for the loaded recipe written out again
    srcMode,        \* info.Mode() of a mapped source: its bits, as <<class, bit>>
    destPath,       \* the mapping destination of that file
    destMode,       \* what DetermineFileMode returned
    srcTree,        \* a mapped source: path below it -> what is there
    dstTree,        \* the mapping's destination: path below it -> what is there
    treeErr,        \* the error the copy returned
    SizeBufferMB,   \* Config.Filesystem.SizeBufferMB of an ext4 build
    rootfsKB,       \* what `du -sk` of the unpacked rootfs reports
    imageKB,        \* size of the file at b.ImagePath, in KiB (0: no file)
    blockSize,      \* block size of the file system in the image (0: none)
    fsBlocks,       \* block count of that file system
    shrinkPc,       \* the next of the three sizing steps, "done" or "failed"
    shrunk,         \* what the last shrinkFilesystem read and decided
    builds,         \* per concurrent OCI build: position, LoopDevicePath, error
    loops,          \* per loop device: the file attached to it ("": none)
    mounts,         \* per mount point: the device mounted there ("": none)
    disk,           \* the host's files: physical path -> what is there
    agentCall,      \* the last call of SourceAgent or CleanupAgent, with the
                    \* disk it found
    agentRet        \* the path and error SourceAgent returned

pipeVars == <<cfg, pc, ran, failed, result, scratch, RootfsReady, MountPoint,
              LoopDevicePath, sysLoop, sysMounted, image, rootfs, output,
              manifest, ctxCancelled, cancelledAt>>

symVars == <<bin, dirs, written, symPc, symErr>>

mapVars == <<mappings, staged>>

confVars == <<recipe, loaded, reloaded>>

modeVars == <<srcMode, destPath, destMode>>

treeVars == <<srcTree, dstTree, treeErr>>

sizeVars == <<SizeBufferMB, rootfsKB, imageKB, blockSize, fsBlocks, shrinkPc, shrunk>>

loopVars == <<builds, loops, mounts>>

agentVars == <<disk, agentCall, agentRet>>

toolVars == <<sizeVars, loopVars, agentVars>>

libVars == <<confVars, modeVars, treeVars, toolVars>>

auxVars == <<symVars, mapVars, libVars>>

vars == <<pipeVars, symVars, mapVars, libVars>>

----------------------------------------------------------------------------
(* Strings are sequences of characters.  "sha256:" is one character of the *)
(* alphabet (P, and Q for an upper-case spelling of it): TrimPrefix only   *)
(* ever looks at it as a whole.                                            *)

P == "sha256:"
Q == "SHA256:"
SP == " "

LowerChar(c) ==
    CASE c = "A" -> "a"
      [] c = "B" -> "b"
      [] c = Q -> P
      [] OTHER -> c

\* strings.ToLower
ToLower(s) == [i \in 1..Len(s) |-> LowerChar(s[i])]

\* strings.TrimPrefix(s, "sha256:")
TrimPrefix(s) == IF Len(s) > 0 /\ s[1] = P THEN Tail(s) ELSE s

RECURSIVE TrimLeft(_)
TrimLeft(s) == IF Len(s) > 0 /\ s[1] = SP THEN TrimLeft(Tail(s)) ELSE s

RECURSIVE TrimRight(_)
TrimRight(s) ==
    IF Len(s) > 0 /\ s[Len(s)] = SP THEN TrimRight(SubSeq(s, 1, Len(s) - 1)) ELSE s

\* strings.TrimSpace
TrimSpace(s) == TrimRight(TrimLeft(s))

\* hex.EncodeToString(sha256(bytes)): the digest of a file's bytes.  Files
\* are named by their bytes; two files have one digest iff their bytes agree.
CalculateSHA256(bytes) ==
    CASE bytes = "good" -> <<"a", "b">>
      [] bytes = "evil" -> <<"b", "a">>
      [] bytes = "cpio.gz" -> <<"c", "0">>
      [] bytes = "partial" -> <<"c", "1">>
      [] bytes = "squashfs" -> <<"c", "2">>
      [] bytes = "ext4" -> <<"c", "3">>
      [] bytes = "xfs" -> <<"c", "4">>
      [] bytes = "btrfs" -> <<"c", "5">>
      [] OTHER -> <<"f", "f">>

\* An error value: what failed, and for a checksum mismatch the two digests.
Err(kind) == [kind |-> kind, expected |-> <<>>, got |-> <<>>]
NoErr == Err("")

VerifyChecksumSkipsCompare(actualBytes, expectedChecksum) == NoErr

\* utils.VerifyChecksum: NoErr, or the mismatch error with both digests.
VerifyChecksum(actualBytes, expectedChecksum) ==
    IF expectedChecksum = <<>> THEN NoErr
    ELSE LET expectedHash == ToLower(TrimSpace(TrimPrefix(expectedChecksum)))
             actualHash == CalculateSHA256(actualBytes)
         IN IF actualHash # expectedHash
            THEN [kind |-> "checksum mismatch", expected |-> expectedHash,
                  got |-> actualHash]
            ELSE NoErr

----------------------------------------------------------------------------
(* The recipe.                                                             *)

NoInit == [present |-> FALSE, None |-> FALSE, Path |-> ""]

InitConfigs ==
    { NoInit,
      [present |-> TRUE, None |-> FALSE, Path |-> ""],
      [present |-> TRUE, None |-> TRUE, Path |-> ""],
      [present |-> TRUE, None |-> FALSE, Path |-> "my-init"] }

AgentStrategies == {"release", "local", "http"}

NoAgent == [present |-> FALSE, SourceStrategy |-> "", Checksum |-> <<>>]

\* InitramfsBuilder.getInitMode
getInitMode(c) ==
    IF ~c.Init.present THEN "default"
    ELSE IF c.Init.None THEN "none"
    ELSE IF c.Init.Path # "" THEN "custom"
    ELSE "default"

GoodSum == <<P, "a", "b">>

AgentConfigs ==
    { [present |-> TRUE, SourceStrategy |-> s, Checksum |-> <<>>] : s \in AgentStrategies }
    \cup { [present |-> TRUE, SourceStrategy |-> "http", Checksum |-> GoodSum] }

\* Recipes Load accepts (config.Validate), and the builder inputs beside them.
\* Builder names the file whose Build runs: the repository holds two
\* InitramfsBuilder.Build.
InitramfsConfigs ==
    { c \in [Strategy : {"initramfs"}, FsType : {""}, Builder : {"part_005"},
             Source : {"none", "image", "dockerfile"},
             Init : InitConfigs, Agent : AgentConfigs \cup {NoAgent},
             BusyboxLocalPath : {"", "/host/busybox"},
             BusyboxSHA256 : {<<>>, GoodSum}] :
        c.Agent.present <=> getInitMode(c) = "default" }

OCIConfigs ==
    [Strategy : {"oci_rootfs"}, FsType : {"squashfs", "ext4", "xfs", "btrfs"},
     Builder : {"oci_rootfs.go"}, Source : {"image", "dockerfile"},
     Init : {NoInit}, Agent : AgentConfigs,
     BusyboxLocalPath : {""}, BusyboxSHA256 : {<<>>}]

Legacy(c) == c.Strategy = "oci_rootfs" /\ c.FsType # "squashfs"

----------------------------------------------------------------------------
(* The step sequences of the two Build methods.                            *)

InitBranch(mode) ==
    CASE mode = "default" -> <<"compileInit", "installAgent">>
      [] mode = "custom" -> <<"installCustomInit">>
      [] OTHER -> <<>>

\* Build of internal/builder/initramfs.go, which NewInitramfsBuilder(cfg,
\* workDir, outputPath) of cmd/fledge/main.go constructs: the init branch
\* comes before busybox, and there is no module, overlay or manifest step.
InitramfsStepsCLI(c) ==
    <<"setupDirectoryStructure">>
    \o InitBranch(getInitMode(c))
    \o <<"installBusybox", "applyMappings", "normalizeTimestamps", "createArchive">>

InitramfsSteps(c) ==
    IF c.Builder = "initramfs.go" THEN InitramfsStepsCLI(c)
    ELSE <<"setupDirectoryStructure", "installKernelModules",
           "overlayDockerRootfsIfProvided", "installBusybox">>
         \o InitBranch(getInitMode(c))
         \o <<"applyMappings", "normalizeTimestamps", "createArchive",
              "generateManifest">>

SquashfsSteps ==
    <<"buildDockerfileIfNeeded", "downloadOCIImage", "unpackOCIImage",
      "extractOCIConfig", "installAgent", "applyMappings", "createSquashfs",
      "moveToFinal">>

LegacySteps ==
    <<"buildDockerfileIfNeeded", "downloadOCIImage", "unpackOCIImage",
      "extractOCIConfig", "installAgent", "applyMappings", "createImageFile",
      "createFilesystem", "mountImage", "copyRootfsToImage", "unmountImage",
      "shrinkFilesystem", "moveToFinal">>

Steps(c) ==
    IF c.Strategy = "initramfs" THEN InitramfsSteps(c)
    ELSE IF c.FsType = "squashfs" THEN SquashfsSteps
    ELSE LegacySteps

\* The text Build puts in front of a step's error.
ErrPrefix(c, step) ==
    IF c.Strategy = "initramfs"
    THEN CASE step = "setupDirectoryStructure" -> "failed to setup directory structure"
           [] step = "overlayDockerRootfsIfProvided" -> "failed to overlay docker rootfs"
           [] step = "installBusybox" -> "failed to install busybox"
           [] step = "compileInit" -> "failed to compile init"
           [] step = "installAgent" -> "failed to install agent"
           [] step = "installCustomInit" -> "failed to install custom init"
           [] step = "applyMappings" -> "failed to apply file mappings"
           [] step = "normalizeTimestamps" -> "failed to normalize timestamps"
           [] step = "createArchive" -> "failed to create archive"
           [] step = "generateManifest" -> "failed to generate manifest"
           [] OTHER -> "warning"
    ELSE CASE step = "buildDockerfileIfNeeded" -> "Build Dockerfile (if provided) failed"
           [] step = "downloadOCIImage" -> "Download OCI image failed"
           [] step = "unpackOCIImage" -> "Unpack image layers failed"
           [] step = "extractOCIConfig" -> "Extract OCI config failed"
           [] step = "installAgent" -> "Install kestrel agent failed"
           [] step = "applyMappings" -> "Apply file mappings failed"
           [] step = "createSquashfs" -> "Create squashfs image failed"
           [] step = "createImageFile" -> "Calculate disk size failed"
           [] step = "createFilesystem" -> "Create filesystem failed"
           [] step = "mountImage" -> "Mount image failed"
           [] step = "copyRootfsToImage" -> "Copy rootfs to image failed"
           [] step = "unmountImage" -> "Unmount image failed"
           [] step = "shrinkFilesystem" -> "Shrink to optimal size failed"
           [] step = "moveToFinal" -> "Move to final location failed"
           [] OTHER -> "failed to create directory"

IndexOf(seq, x) == CHOOSE i \in 1..Len(seq) : seq[i] = x

\* The first deferred call of Build: cleanup() for the OCI builder (deferred
\* last, so run first), os.RemoveAll(tmpDir) for the initramfs builder.
FirstDefer(c) == IF c.Strategy = "oci_rootfs" THEN "cleanup" ELSE "RemoveAll"

AbortsBuildNever(c, step) == FALSE

\* Whether Build returns when `step` returns an error: every step but
\* installKernelModules, whose error is logged as a warning.
AbortsBuild(c, step) ==
    ~(c.Strategy = "initramfs" /\ step = "installKernelModules")

NoResult == [kind |-> "none", step |-> "", prefix |-> "", cause |-> NoErr]
Ok == [kind |-> "ok", step |-> "", prefix |-> "", cause |-> NoErr]
Failure(c, step, cause) ==
    [kind |-> "error", step |-> step, prefix |-> ErrPrefix(c, step), cause |-> cause]

\* The control flow of Build around one step that returned `err`.
StepReturns(step, err) ==
    /\ pc = step
    /\ ran' = Append(ran, step)
    /\ failed' = IF err = NoErr THEN failed ELSE Append(failed, <<step, err>>)
    /\ LET i == IndexOf(Steps(cfg), step)
           last == i = Len(Steps(cfg))
       IN IF err # NoErr /\ AbortsBuild(cfg, step)
          THEN /\ result' = Failure(cfg, step, err)
               /\ pc' = FirstDefer(cfg)
          ELSE IF last
          THEN /\ result' = Ok
               /\ pc' = FirstDefer(cfg)
          ELSE /\ result' = result
               /\ pc' = Steps(cfg)[i + 1]
    /\ UNCHANGED <<cfg, ctxCancelled, cancelledAt>>
    /\ UNCHANGED auxVars


----------------------------------------------------------------------------
(* The file system and the kernel, as far as a build touches them.         *)

TmpDir == "tmpDir"          \* os.MkdirTemp("", "fledge-...-*"), with all inside it
AgentTmp == "agentTmp"      \* os.CreateTemp("", "fledge-agent-*") or a download
LoopDev == "/dev/loop0"     \* what losetup --find --show prints
Mnt == "tmpDir/mnt"         \* filepath.Join(tmpDir, "mnt")

\* "init" is the content of <rootfs>/init and "init.mode" its permissions.
RootfsEntries == {"skeleton", "modules", "overlay", "busybox", "init", "init.mode",
                  "kestrel", "entrypoint", "mappings", "mtime"}

EmptyRootfs == [e \in RootfsEntries |-> "absent"]

\* What a download can deliver: the bytes the publisher meant, or others.
Downloaded == {"good", "evil"}

Put(e, content) == rootfs' = [rootfs EXCEPT ![e] = content]

\* Outcomes of utils.DownloadToTempFile: an error (the partial file is
\* removed), or a temp file with the bytes received.
DownloadToTempFile ==
    { [err |-> Err("download failed"), bytes |-> ""] }
    \cup { [err |-> NoErr, bytes |-> b] : b \in Downloaded }

Sourced(err, bytes, leak) == [err |-> err, bytes |-> bytes, leak |-> leak]

\* Outcomes of sourceAgentFromRelease.
sourceAgentFromRelease ==
    { Sourced(Err(k), "", FALSE) :
        k \in {"failed to fetch release info", "kestrel binary not found in release",
               "failed to make kestrel executable"} }
    \cup { Sourced(IF d.err = NoErr THEN NoErr ELSE Err("failed to download kestrel"),
                   d.bytes, FALSE) : d \in DownloadToTempFile }

\* Outcomes of sourceAgentFromLocal.  After os.CreateTemp, a failure of
\* os.Open(localPath) or os.Create(tmpPath) returns without removing the
\* temp file; a failure of io.Copy or os.Chmod removes it.
sourceAgentFromLocal ==
    { Sourced(Err(k), "", FALSE) :
        k \in {"agent path does not exist", "agent path is a directory",
               "failed to create temp file", "failed to copy agent",
               "failed to make agent executable"} }
    \cup { Sourced(Err(k), "", TRUE) :
        k \in {"failed to open source agent", "failed to create destination"} }
    \cup { Sourced(NoErr, "local", FALSE) }

\* Outcomes of sourceAgentFromHTTP.
sourceAgentFromHTTP(checksum) ==
    { Sourced(Err("failed to make agent executable"), "", FALSE) }
    \cup { IF d.err # NoErr THEN Sourced(Err("failed to download agent"), "", FALSE)
           ELSE IF checksum # <<>> /\ VerifyChecksum(d.bytes, checksum) # NoErr
           THEN Sourced(VerifyChecksum(d.bytes, checksum), "", FALSE)
           ELSE Sourced(NoErr, d.bytes, FALSE) : d \in DownloadToTempFile }

\* Outcomes of SourceAgent.
SourceAgent(agentCfg) ==
    IF ~agentCfg.present THEN { Sourced(Err("agent configuration is nil"), "", FALSE) }
    ELSE CASE agentCfg.SourceStrategy = "release" -> sourceAgentFromRelease
           [] agentCfg.SourceStrategy = "local" -> sourceAgentFromLocal
           [] agentCfg.SourceStrategy = "http" -> sourceAgentFromHTTP(agentCfg.Checksum)
           [] OTHER -> { Sourced(Err("unknown agent source strategy"), "", FALSE) }

\* A step that only succeeds or fails, writing `e` into the rootfs on success.
Plain(step, causes, e, content) ==
    \E err \in {NoErr} \cup {Err(k) : k \in causes} :
        /\ StepReturns(step, err)
        /\ IF err = NoErr /\ e # "" THEN Put(e, content) ELSE rootfs' = rootfs

sysVars == <<scratch, RootfsReady, MountPoint, LoopDevicePath, sysLoop, sysMounted,
             image, output, manifest>>

\* installAgent in detail and the mapping engine are not running.
SymlinkIdle ==
    /\ bin = [kind |-> "absent", abs |-> FALSE, comps |-> <<>>]
    /\ dirs = {}
    /\ written = {}
    /\ symPc = "idle"
    /\ symErr = ""

MappingsIdle ==
    /\ mappings = <<>>
    /\ staged = <<>>

\* No recipe is being loaded.
ConfigIdle ==
    /\ recipe = <<>>
    /\ loaded = <<>>
    /\ reloaded = <<>>

\* No file mode is being determined and no source tree copied.
\* No mode has been determined.
Undetermined == {<<"?", "?">>}

FileModeIdle ==
    /\ srcMode = {}
    /\ destPath = <<>>
    /\ destMode = Undetermined

CopyTreeIdle ==
    /\ srcTree = <<>>
    /\ dstTree = <<>>
    /\ treeErr = ""

\* shrinkFilesystem has read nothing.
NotShrunk == [curBlocks |-> 0, minBlocks |-> 0, rootfsKB |-> 0, imageKB |-> 0,
              desiredBlocks |-> 0, resized |-> FALSE]

\* No image is being sized.
SizingIdle ==
    /\ SizeBufferMB = 0
    /\ rootfsKB = 0
    /\ imageKB = 0
    /\ blockSize = 0
    /\ fsBlocks = 0
    /\ shrinkPc = "idle"
    /\ shrunk = NotShrunk

\* No concurrent builds are running.
LoopsIdle ==
    /\ builds = <<>>
    /\ loops = <<>>
    /\ mounts = <<>>

\* The empty string, as a path.
EmptyString == <<"">>

NoCall == [op |-> "none", present |-> FALSE, SourceStrategy |-> "", Path |-> EmptyString,
           fault |-> "none", before |-> <<>>]

NotReturned == [path |-> EmptyString, err |-> ""]

\* Neither SourceAgent nor CleanupAgent has been called on a disk.
AgentIdle ==
    /\ disk = <<>>
    /\ agentCall = NoCall
    /\ agentRet = NotReturned

ToolsIdle == SizingIdle /\ LoopsIdle /\ AgentIdle

LibIdle == ConfigIdle /\ FileModeIdle /\ CopyTreeIdle /\ ToolsIdle

----------------------------------------------------------------------------
(* InitramfsBuilder.                                                       *)

Initramfs == cfg.Strategy = "initramfs"

\* Build up to the first step: os.MkdirTemp and the deferred os.RemoveAll.
Initramfs_Build ==
    /\ pc = "Build" /\ Initramfs
    /\ \E ok \in BOOLEAN :
        IF ok
        THEN /\ scratch' = scratch \cup {TmpDir}
             /\ pc' = Steps(cfg)[1]
             /\ result' = result
        ELSE /\ scratch' = scratch
             /\ pc' = "returned"
             /\ result' = [kind |-> "error", step |-> "", cause |-> Err("MkdirTemp"),
                           prefix |-> "failed to create temp directory"]
    /\ UNCHANGED <<cfg, ran, failed, RootfsReady, MountPoint, LoopDevicePath, sysLoop,
                   sysMounted, image, rootfs, output, manifest, ctxCancelled,
                   cancelledAt>>
    /\ UNCHANGED auxVars

setupDirectoryStructure ==
    /\ Initramfs
    /\ Plain("setupDirectoryStructure", {"failed to create directory"}, "skeleton", "fhs")
    /\ UNCHANGED sysVars

installKernelModules ==
    /\ Initramfs
    /\ Plain("installKernelModules",
             {"failed to detect kernel version", "no kernel modules found"},
             "modules", "ko")
    /\ UNCHANGED sysVars

\* The permissions an /init of the image can have.
ImageInitModes == {"0755", "0644"}

\* The export or unpack directory is removed by the function's own defer.
\* overlayCopyPreserve copies every file of the image with its mode, an
\* /init among them when the image has one.
overlayDockerRootfsIfProvided ==
    /\ Initramfs
    /\ IF cfg.Source = "none"
       THEN StepReturns("overlayDockerRootfsIfProvided", NoErr) /\ rootfs' = rootfs
       ELSE IF cfg.Source = "image with /init"
       THEN \E err \in {NoErr, Err("skopeo copy failed"), Err("umoci unpack failed"),
                        Err("failed to overlay rootfs")},
               mode \in ImageInitModes :
              /\ StepReturns("overlayDockerRootfsIfProvided", err)
              /\ rootfs' = IF err = NoErr
                           THEN [rootfs EXCEPT !["overlay"] = "image",
                                               !["init"] = "image",
                                               !["init.mode"] = mode]
                           ELSE rootfs
       ELSE Plain("overlayDockerRootfsIfProvided",
                  IF cfg.Source = "dockerfile"
                  THEN {"buildkit build failed", "failed to overlay buildkit rootfs"}
                  ELSE {"skopeo copy failed", "umoci unpack failed",
                        "failed to overlay rootfs"},
                  "overlay", cfg.Source)
    /\ UNCHANGED sysVars

\* The downloaded file is removed by the function's defer os.Remove(tmpPath);
\* createBusyboxSymlinks only warns.
installBusybox ==
    /\ Initramfs
    /\ IF cfg.BusyboxLocalPath # ""
       THEN Plain("installBusybox", {"failed to copy busybox from host"}, "busybox", "host")
       ELSE \E d \in DownloadToTempFile, copyOk \in BOOLEAN :
              LET sum == IF d.err = NoErr /\ cfg.BusyboxSHA256 # <<>>
                         THEN VerifyChecksum(d.bytes, cfg.BusyboxSHA256)
                         ELSE NoErr
                  err == IF d.err # NoErr THEN Err("failed to download busybox")
                         ELSE IF sum # NoErr THEN sum
                         ELSE IF ~copyOk THEN Err("failed to copy busybox")
                         ELSE NoErr
              IN /\ StepReturns("installBusybox", err)
                 /\ IF err = NoErr THEN Put("busybox", d.bytes) ELSE rootfs' = rootfs
    /\ UNCHANGED sysVars

\* compileInit: gcc writes <rootfs>/init, os.Chmod makes it 0755.
compileInit ==
    /\ Initramfs
    /\ \E err \in {NoErr, Err("failed to write init.c"), Err("gcc compilation failed"),
                   Err("failed to chmod init")} :
        /\ StepReturns("compileInit", err)
        /\ rootfs' = IF err = NoErr
                     THEN [rootfs EXCEPT !["init"] = "compiled", !["init.mode"] = "0755"]
                     ELSE rootfs
    /\ UNCHANGED sysVars

\* A sourced agent is removed by the deferred CleanupAgent; a temp file that
\* SourceAgent left behind with its error is not.
Initramfs_installAgent ==
    /\ Initramfs
    /\ \E a \in SourceAgent(cfg.Agent),
          dest \in {NoErr, Err("symlink points outside rootfs"), Err("failed to copy kestrel")} :
        LET err == IF a.err # NoErr THEN a.err ELSE dest
        IN /\ a.err # NoErr => dest = NoErr
           /\ StepReturns("installAgent", err)
           /\ IF err = NoErr THEN Put("kestrel", a.bytes) ELSE rootfs' = rootfs
           /\ scratch' = IF a.leak THEN scratch \cup {AgentTmp} ELSE scratch
    /\ UNCHANGED <<RootfsReady, MountPoint, LoopDevicePath, sysLoop, sysMounted, image,
                   output, manifest>>

\* installCustomInit: os.WriteFile(initDest, data, 0755), whose permissions
\* count only when it creates the file; a file already there is truncated
\* and keeps its mode.
installCustomInit ==
    /\ Initramfs
    /\ \E err \in {NoErr, Err("custom init file not found"),
                   Err("failed to read custom init"), Err("failed to write custom init")} :
        /\ StepReturns("installCustomInit", err)
        /\ rootfs' = IF err = NoErr
                     THEN [rootfs EXCEPT
                             !["init"] = cfg.Init.Path,
                             !["init.mode"] = IF rootfs["init"] = "absent" THEN "0755"
                                              ELSE @]
                     ELSE rootfs
    /\ UNCHANGED sysVars

\* The destination /init of a mapping.
InitDest == <<"init">>

\* The sources Config.Mappings maps to /init.
MappedToInit == {src \in DOMAIN mappings : mappings[src] = InitDest}

\* applyMappings: a mapping to /init is copied over what is there by
\* CopyFile, which ends with os.Chmod; the source is an executable file.
Initramfs_applyMappings ==
    /\ Initramfs
    /\ \E err \in {NoErr, Err("failed to prepare mappings"),
                   Err("failed to apply mappings")} :
        /\ StepReturns("applyMappings", err)
        /\ rootfs' = IF err # NoErr THEN rootfs
                     ELSE IF MappedToInit = {}
                     THEN [rootfs EXCEPT !["mappings"] = "applied"]
                     ELSE [rootfs EXCEPT !["mappings"] = "applied",
                                         !["init"] = CHOOSE src \in MappedToInit : TRUE,
                                         !["init.mode"] = "0755"]
    /\ UNCHANGED sysVars

\* normalizeTimestamps: the Walk callback returns the error of os.Chtimes on
\* an entry, Walk stops there and the step returns it wrapped.
normalizeTimestamps ==
    /\ Initramfs
    /\ Plain("normalizeTimestamps", {"failed to change time"}, "mtime", "epoch")
    /\ UNCHANGED sysVars

\* createArchive: the uncompressed CPIO temp file is removed by the defer;
\* os.Create(b.OutputPath) comes before gzip runs and nothing removes the
\* output file when gzip fails.
createArchive ==
    /\ Initramfs
    /\ \E err \in {NoErr} \cup
                  {Err(k) : k \in {"failed to create output directory",
                                   "failed to create temp cpio file", "find command failed",
                                   "cpio command failed", "failed to create output file",
                                   "gzip command failed"}} :
        /\ StepReturns("createArchive", err)
        /\ output' = IF err = NoErr THEN "cpio.gz"
                     ELSE IF err = Err("gzip command failed") THEN "partial"
                     ELSE output
    /\ UNCHANGED <<scratch, RootfsReady, MountPoint, LoopDevicePath, sysLoop, sysMounted,
                   image, rootfs, manifest>>

\* generateManifest: hash the file at OutputPath, write the sidecar.
generateManifest ==
    /\ Initramfs
    /\ \E err \in {NoErr} \cup
                  {Err(k) : k \in {"failed to compute checksum",
                                   "failed to write manifest file"}} :
        /\ StepReturns("generateManifest", err)
        /\ manifest' = IF err = NoErr THEN <<P>> \o CalculateSHA256(output) ELSE manifest
    /\ UNCHANGED <<scratch, RootfsReady, MountPoint, LoopDevicePath, sysLoop, sysMounted,
                   image, rootfs, output>>

----------------------------------------------------------------------------
(* OCIRootfsBuilder.                                                       *)

OCI == cfg.Strategy = "oci_rootfs"

\* The EphemeralTag field: nothing in the builder assigns it.
EphemeralTag == ""

\* Build up to the first step: os.MkdirTemp, the two defers, the paths,
\* os.MkdirAll of the layout, unpack and mount directories.
OCI_Build ==
    /\ pc = "Build" /\ OCI
    /\ \E mkTemp \in BOOLEAN, mkAll \in BOOLEAN :
        IF ~mkTemp
        THEN /\ mkAll
             /\ pc' = "returned"
             /\ result' = [kind |-> "error", step |-> "", cause |-> Err("MkdirTemp"),
                           prefix |-> "failed to create temp directory"]
             /\ UNCHANGED <<scratch, MountPoint>>
        ELSE /\ scratch' = scratch \cup {TmpDir}
             /\ MountPoint' = Mnt
             /\ IF mkAll
                THEN pc' = Steps(cfg)[1] /\ result' = result
                ELSE /\ pc' = FirstDefer(cfg)
                     /\ result' = [kind |-> "error", step |-> "", cause |-> Err("MkdirAll"),
                                   prefix |-> "failed to create directory"]
    /\ UNCHANGED <<cfg, ran, failed, RootfsReady, LoopDevicePath, sysLoop, sysMounted,
                   image, rootfs, output, manifest, ctxCancelled, cancelledAt>>
    /\ UNCHANGED auxVars

buildDockerfileIfNeeded ==
    /\ OCI
    /\ IF cfg.Source # "dockerfile"
       THEN /\ StepReturns("buildDockerfileIfNeeded", NoErr)
            /\ UNCHANGED <<rootfs, RootfsReady>>
       ELSE \E err \in {NoErr, Err("buildkit build failed"),
                        Err("failed to create essential directory")} :
            /\ StepReturns("buildDockerfileIfNeeded", err)
            /\ RootfsReady' = (err = NoErr)
            /\ IF err = NoErr THEN Put("overlay", "dockerfile") ELSE rootfs' = rootfs
    /\ UNCHANGED <<scratch, MountPoint, LoopDevicePath, sysLoop, sysMounted, image,
                   output, manifest>>

downloadOCIImage ==
    /\ OCI
    /\ IF RootfsReady
       THEN StepReturns("downloadOCIImage", NoErr)
       ELSE \E err \in {NoErr, Err("skopeo copy failed")} :
                StepReturns("downloadOCIImage", err)
    /\ UNCHANGED <<rootfs>> /\ UNCHANGED sysVars

unpackOCIImage ==
    /\ OCI
    /\ IF RootfsReady
       THEN StepReturns("unpackOCIImage", NoErr) /\ rootfs' = rootfs
       ELSE Plain("unpackOCIImage", {"umoci unpack failed"}, "overlay", "image")
    /\ UNCHANGED sysVars

\* extractOCIConfig: nil without writing when blobs, index.json, a manifest
\* or a digest is missing; an error when /etc cannot be made or the copy fails.
extractOCIConfig ==
    /\ OCI
    /\ \E skip \in BOOLEAN :
        IF skip
        THEN StepReturns("extractOCIConfig", NoErr) /\ rootfs' = rootfs
        ELSE Plain("extractOCIConfig", {"failed to create /etc directory",
                                        "failed to copy OCI config"},
                   "entrypoint", "config")
    /\ UNCHANGED sysVars

OCI_installAgent ==
    /\ OCI
    /\ \E a \in SourceAgent(cfg.Agent),
          dest \in {NoErr, Err("rootfs path exists but is not a directory"),
                    Err("symlink points outside rootfs"), Err("failed to copy kestrel")} :
        LET err == IF a.err # NoErr THEN a.err ELSE dest
        IN /\ a.err # NoErr => dest = NoErr
           /\ StepReturns("installAgent", err)
           /\ IF err = NoErr THEN Put("kestrel", a.bytes) ELSE rootfs' = rootfs
           /\ scratch' = IF a.leak THEN scratch \cup {AgentTmp} ELSE scratch
    /\ UNCHANGED <<RootfsReady, MountPoint, LoopDevicePath, sysLoop, sysMounted, image,
                   output, manifest>>

OCI_applyMappings ==
    /\ OCI
    /\ Plain("applyMappings", {"failed to prepare mappings", "failed to apply mappings"},
             "mappings", "applied")
    /\ UNCHANGED sysVars

\* A step that only changes the scratch image.
ImageStep(step, causes, after) ==
    /\ OCI
    /\ \E err \in {NoErr} \cup {Err(k) : k \in causes} :
        /\ StepReturns(step, err)
        /\ image' = IF err = NoErr THEN after ELSE image
    /\ UNCHANGED <<scratch, RootfsReady, MountPoint, LoopDevicePath, sysLoop, sysMounted,
                   rootfs, output, manifest>>

createSquashfs ==
    ImageStep("createSquashfs", {"rootfs directory does not exist", "mksquashfs failed",
                                 "failed to stat squashfs image"}, "squashfs")

createImageFile ==
    ImageStep("createImageFile", {"failed to calculate rootfs size", "fallocate failed",
                                  "dd failed"}, "allocated")

createFilesystem == ImageStep("createFilesystem", {"mkfs failed"}, "formatted")

\* mountImage: losetup --find --show, record the device, mount it.
mountImage ==
    /\ OCI
    /\ \E losetup \in {"fails", "prints nothing", "attaches"}, mountOk \in BOOLEAN :
        IF losetup # "attaches"
        THEN /\ mountOk
             /\ StepReturns("mountImage",
                            IF losetup = "fails" THEN Err("losetup failed")
                            ELSE Err("losetup did not return a device path"))
             /\ UNCHANGED <<LoopDevicePath, sysLoop, sysMounted>>
        ELSE /\ LoopDevicePath' = LoopDev
             /\ sysLoop' = sysLoop \cup {LoopDev}
             /\ sysMounted' = IF mountOk THEN sysMounted \cup {MountPoint} ELSE sysMounted
             /\ StepReturns("mountImage", IF mountOk THEN NoErr ELSE Err("mount failed"))
    /\ UNCHANGED <<scratch, RootfsReady, MountPoint, image, rootfs, output, manifest>>

copyRootfsToImage ==
    ImageStep("copyRootfsToImage", {"failed to calculate total size",
                                    "failed to create destination"}, "copied")

\* The first half of unmountImage: what is mounted after `umount MountPoint`,
\* which runs when MountPoint is set and exists; its failure is only logged.
Umount(umountOk) ==
    IF MountPoint # "" /\ TmpDir \in scratch /\ umountOk
    THEN sysMounted \ {MountPoint}
    ELSE sysMounted

\* The second half: what is attached after `losetup -d LoopDevicePath`, whose
\* failure is only logged.  A device whose file system is still mounted
\* stays attached.
Detach(mountedNow, detachOk) ==
    IF LoopDevicePath # "" /\ detachOk /\ MountPoint \notin mountedNow
    THEN sysLoop \ {LoopDevicePath}
    ELSE sysLoop

\* unmountImage always returns nil.
unmountImage ==
    /\ OCI
    /\ \E umountOk \in BOOLEAN, detachOk \in BOOLEAN :
        /\ sysMounted' = Umount(umountOk)
        /\ sysLoop' = Detach(Umount(umountOk), detachOk)
    /\ StepReturns("unmountImage", NoErr)
    /\ UNCHANGED <<scratch, RootfsReady, MountPoint, LoopDevicePath, image, rootfs,
                   output, manifest>>

shrinkFilesystem ==
    /\ OCI
    /\ IF cfg.FsType # "ext4"
       THEN StepReturns("shrinkFilesystem", NoErr) /\ image' = image
       ELSE \E err \in {NoErr} \cup
                       {Err(k) : k \in {"dumpe2fs failed", "resize2fs -P failed",
                                        "resize2fs to target size failed",
                                        "failed to truncate image"}} :
              /\ StepReturns("shrinkFilesystem", err)
              /\ image' = IF err = NoErr THEN "shrunk" ELSE image
    /\ UNCHANGED <<scratch, RootfsReady, MountPoint, LoopDevicePath, sysLoop, sysMounted,
                   rootfs, output, manifest>>

\* moveToFinal: os.MkdirAll of the output directory, then os.Rename.
moveToFinal ==
    /\ OCI
    /\ \E err \in {NoErr, Err("failed to create output directory"),
                   Err("failed to move image")} :
        /\ StepReturns("moveToFinal", err)
        /\ output' = IF err = NoErr THEN cfg.FsType ELSE output
        /\ image' = IF err = NoErr THEN "none" ELSE image
    /\ UNCHANGED <<scratch, RootfsReady, MountPoint, LoopDevicePath, sysLoop, sysMounted,
                   rootfs, manifest>>

\* The deferred cleanup(): unmountImage again when a mount point or device is
\* recorded; docker rmi when EphemeralTag is set.
cleanup ==
    /\ pc = "cleanup"
    /\ \E umountOk \in BOOLEAN, detachOk \in BOOLEAN :
        IF MountPoint # "" \/ LoopDevicePath # ""
        THEN /\ sysMounted' = Umount(umountOk)
             /\ sysLoop' = Detach(Umount(umountOk), detachOk)
        ELSE UNCHANGED <<sysMounted, sysLoop>>
    /\ pc' = "RemoveAll"
    /\ UNCHANGED <<cfg, ran, failed, result, scratch, RootfsReady, MountPoint,
                   LoopDevicePath, image, rootfs, output, manifest, ctxCancelled,
                   cancelledAt>>
    /\ UNCHANGED auxVars

\* The deferred os.RemoveAll(tmpDir), after which Build has returned.  A
\* directory that holds a mounted file system cannot be removed.
RemoveAll ==
    /\ pc = "RemoveAll"
    /\ LET removed == MountPoint \notin sysMounted
       IN /\ scratch' = IF removed THEN scratch \ {TmpDir} ELSE scratch
          /\ image' = IF removed THEN "none" ELSE image
    /\ pc' = "returned"
    /\ UNCHANGED <<cfg, ran, failed, result, RootfsReady, MountPoint, LoopDevicePath,
                   sysLoop, sysMounted, rootfs, output, manifest, ctxCancelled,
                   cancelledAt>>
    /\ UNCHANGED auxVars

----------------------------------------------------------------------------
(* setupSignalHandling: on SIGINT or SIGTERM the goroutine cancels the     *)
(* context that runBuild hands to buildOCIRootfs and buildInitramfs.       *)
(* Neither hands it on: Build takes no context.                            *)

Signal ==
    /\ pc # "returned"
    /\ ~ctxCancelled
    /\ ctxCancelled' = TRUE
    /\ cancelledAt' = pc
    /\ UNCHANGED <<cfg, pc, ran, failed, result, scratch, RootfsReady, MountPoint,
                   LoopDevicePath, sysLoop, sysMounted, image, rootfs, output, manifest>>
    /\ UNCHANGED auxVars

----------------------------------------------------------------------------

\* Build has been constructed and not yet called.
BuilderNotStarted ==
    /\ pc = "Build"
    /\ ran = <<>>
    /\ failed = <<>>
    /\ result = NoResult
    /\ scratch = {}
    /\ RootfsReady = FALSE
    /\ MountPoint = ""
    /\ LoopDevicePath = ""
    /\ sysLoop = {}
    /\ sysMounted = {}
    /\ image = "none"
    /\ rootfs = EmptyRootfs
    /\ output = "absent"
    /\ manifest = <<>>
    /\ ctxCancelled = FALSE
    /\ cancelledAt = ""

NotStarted ==
    /\ BuilderNotStarted
    /\ SymlinkIdle
    /\ MappingsIdle
    /\ LibIdle

Init ==
    /\ cfg \in InitramfsConfigs \cup OCIConfigs
    /\ NotStarted

Next ==
    \/ Initramfs_Build
    \/ setupDirectoryStructure
    \/ installKernelModules
    \/ overlayDockerRootfsIfProvided
    \/ installBusybox
    \/ compileInit
    \/ Initramfs_installAgent
    \/ installCustomInit
    \/ Initramfs_applyMappings
    \/ normalizeTimestamps
    \/ createArchive
    \/ generateManifest
    \/ OCI_Build
    \/ buildDockerfileIfNeeded
    \/ downloadOCIImage
    \/ unpackOCIImage
    \/ extractOCIConfig
    \/ OCI_installAgent
    \/ OCI_applyMappings
    \/ createSquashfs
    \/ createImageFile
    \/ createFilesystem
    \/ mountImage
    \/ copyRootfsToImage
    \/ unmountImage
    \/ shrinkFilesystem
    \/ moveToFinal
    \/ cleanup
    \/ RemoveAll
    \/ Signal

Spec == Init /\ [][Next]_vars

----------------------------------------------------------------------------
(* Initramfs builds with the default init, a downloaded busybox and an     *)
(* http agent, where one of the two configured checksums is any string of  *)
(* at most MaxLen characters.                                              *)

MaxLen == 3

Alphabet == {"a", "b", "A", P, SP}

ChecksumStrings == UNION { [1..n -> Alphabet] : n \in 0..MaxLen }

ChecksumConfigs ==
    { [Strategy |-> "initramfs", FsType |-> "", Builder |-> "part_005",
       Source |-> "none", Init |-> NoInit,
       Agent |-> [present |-> TRUE, SourceStrategy |-> "http", Checksum |-> k[2]],
       BusyboxLocalPath |-> "", BusyboxSHA256 |-> k[1]] :
        k \in (ChecksumStrings \X {<<>>}) \cup ({<<>>} \X ChecksumStrings) }

InitChecksum ==
    /\ cfg \in ChecksumConfigs
    /\ NotStarted

NextChecksum ==
    \/ Initramfs_Build
    \/ setupDirectoryStructure
    \/ installKernelModules
    \/ overlayDockerRootfsIfProvided
    \/ installBusybox
    \/ compileInit
    \/ Initramfs_installAgent
    \/ Initramfs_applyMappings
    \/ normalizeTimestamps
    \/ createArchive
    \/ generateManifest
    \/ RemoveAll

SpecChecksum == InitChecksum /\ [][NextChecksum]_vars

----------------------------------------------------------------------------
(* Initramfs builds by either Build of the repository, of an image that    *)
(* may bring its own /init, with a [mappings] table that may map a file to *)
(* /init.                                                                  *)

InitramfsBuilds ==
    { [c EXCEPT !.Builder = b, !.Source = src] :
        c \in { k \in InitramfsConfigs :
                  /\ k.Source = "none" /\ k.BusyboxLocalPath = ""
                  /\ k.BusyboxSHA256 = <<>>
                  /\ k.Agent.present => k.Agent.SourceStrategy = "local" },
        b \in {"part_005"}, src \in {"none", "image", "image with /init"} }
    \cup { [c EXCEPT !.Builder = "initramfs.go"] :
        c \in { k \in InitramfsConfigs :
                  /\ k.Source = "none" /\ k.BusyboxLocalPath = ""
                  /\ k.BusyboxSHA256 = <<>>
                  /\ k.Agent.present => k.Agent.SourceStrategy = "local" } }

InitMappingTables ==
    { [src \in {} |-> InitDest],
      [src \in {"custom-pid1"} |-> InitDest],
      [src \in {"app.conf"} |-> <<"etc", "app.conf">>] }

InitInitramfs ==
    /\ cfg \in InitramfsBuilds
    /\ BuilderNotStarted
    /\ SymlinkIdle
    /\ mappings \in InitMappingTables
    /\ staged = <<>>
    /\ LibIdle

NextInitramfs ==
    \/ Initramfs_Build
    \/ setupDirectoryStructure
    \/ installKernelModules
    \/ overlayDockerRootfsIfProvided
    \/ installBusybox
    \/ compileInit
    \/ Initramfs_installAgent
    \/ installCustomInit
    \/ Initramfs_applyMappings
    \/ normalizeTimestamps
    \/ createArchive
    \/ generateManifest
    \/ RemoveAll

SpecInitramfs == InitInitramfs /\ [][NextInitramfs]_vars

----------------------------------------------------------------------------
(* installAgent in detail.  A path is the sequence of its components from  *)
(* the root; a symlink target is absolute or relative.  The host has its   *)
(* own /usr/bin; the staged rootfs is /tmp/rootfs.                         *)

RootfsPath == <<"tmp", "rootfs">>
BinDir == RootfsPath \o <<"bin">>          \* filepath.Dir(kestrelPath)
KestrelPath == BinDir \o <<"kestrel">>     \* filepath.Join(rootfs, "bin", "kestrel")

HostDirs == {<<>>, <<"usr">>, <<"usr", "bin">>, <<"tmp">>, RootfsPath}

MaxTargetLen == 3

Names == {"..", "usr", "bin", "tmp", "rootfs"}

Targets ==
    { [kind |-> "symlink", abs |-> a, comps |-> c] :
        a \in BOOLEAN, c \in UNION { [1..n -> Names] : n \in 1..MaxTargetLen } }

Front(p) == SubSeq(p, 1, Len(p) - 1)

Prefixes(p) == {SubSeq(p, 1, n) : n \in 0..Len(p)}

Inside(p) == Len(p) >= Len(RootfsPath) /\ SubSeq(p, 1, Len(RootfsPath)) = RootfsPath

\* filepath.Clean of a rooted path: ".." removes the component before it,
\* and is dropped at the root.
RECURSIVE CleanFrom(_, _)
CleanFrom(acc, rest) ==
    IF rest = <<>> THEN acc
    ELSE IF Head(rest) = ".."
    THEN CleanFrom(IF acc = <<>> THEN <<>> ELSE Front(acc), Tail(rest))
    ELSE CleanFrom(Append(acc, Head(rest)), Tail(rest))

Clean(p) == CleanFrom(<<>>, p)

\* filepath.Join of a rooted path and more components
Join(p, q) == Clean(p \o q)

RECURSIVE CommonLen(_, _)
CommonLen(p, q) ==
    IF p # <<>> /\ q # <<>> /\ Head(p) = Head(q)
    THEN 1 + CommonLen(Tail(p), Tail(q)) ELSE 0

\* filepath.Rel of two clean rooted paths ("." is the empty sequence)
Rel(base, targ) ==
    LET n == CommonLen(base, targ)
    IN [i \in 1..(Len(base) - n) |-> ".."] \o SubSeq(targ, n + 1, Len(targ))

\* resolveSymlinkTarget: an absolute target is re-rooted under the rootfs.
resolveSymlinkTarget(rootfsPath, linkPath, target) ==
    IF target.abs
    THEN Join(rootfsPath, target.comps)
    ELSE Clean(Join(Front(linkPath), target.comps))

\* os.MkdirAll(p): the directories afterwards, or "fails" when the path runs
\* through the symlink at <rootfs>/bin or through a regular file there.
MkdirAll(p) ==
    IF bin.kind \in {"symlink", "file"} /\ BinDir \in Prefixes(p)
    THEN "fails"
    ELSE "ok"

\* How the kernel walks `comps` from directory `cur`: each component must
\* exist; ".." goes to the parent; reaching <rootfs>/bin again is a loop.
RECURSIVE Walk(_, _, _)
Walk(cur, comps, ds) ==
    IF comps = <<>> THEN [ok |-> TRUE, path |-> cur]
    ELSE LET nxt == IF Head(comps) = ".."
                    THEN IF cur = <<>> THEN <<>> ELSE Front(cur)
                    ELSE Append(cur, Head(comps))
         IN IF nxt = BinDir \/ nxt \notin ds
            THEN [ok |-> FALSE, path |-> <<>>]
            ELSE Walk(nxt, Tail(comps), ds)

\* The directory the kernel reaches for <rootfs>/bin.
Follow(ds) ==
    CASE bin.kind = "dir" -> [ok |-> TRUE, path |-> BinDir]
      [] bin.kind = "symlink" ->
            Walk(IF bin.abs THEN <<>> ELSE RootfsPath, bin.comps, ds)
      [] OTHER -> [ok |-> FALSE, path |-> <<>>]

\* ensureDestDir(rootfsPath, binDir): the error it returns ("" for nil) and
\* the directory it makes (<<>> for none), by what os.Lstat(binDir) finds.
ensureDestDirResult ==
    CASE bin.kind = "symlink" ->
            LET targetPath == resolveSymlinkTarget(RootfsPath, BinDir, bin)
                rel == Rel(RootfsPath, targetPath)
            IN IF rel # <<>> /\ rel[1] = ".."
               THEN [err |-> "symlink points outside rootfs", made |-> <<>>]
               ELSE IF MkdirAll(targetPath) = "fails"
               THEN [err |-> "failed to prepare symlink target", made |-> <<>>]
               ELSE [err |-> "", made |-> targetPath]
      [] bin.kind = "file" -> [err |-> "/bin path exists but is not a directory",
                               made |-> <<>>]
      [] bin.kind = "dir" -> [err |-> "", made |-> <<>>]
      [] OTHER -> [err |-> "", made |-> BinDir]

ensureDestDir ==
    /\ symPc = "ensureDestDir"
    /\ LET r == ensureDestDirResult
       IN /\ symErr' = r.err
          /\ symPc' = IF r.err = "" THEN "CopyFile" ELSE "done"
          /\ dirs' = IF r.err = "" THEN dirs \cup Prefixes(r.made) ELSE dirs
          /\ bin' = IF r.err = "" /\ bin.kind = "absent"
                    THEN [bin EXCEPT !.kind = "dir"] ELSE bin
    /\ UNCHANGED <<written, pipeVars, mapVars, libVars>>

\* CopyFile(agentPath, kestrelPath, 0755): os.MkdirAll of the destination
\* directory succeeds when the kernel reaches a directory there; os.OpenFile
\* creates or truncates kestrel in the directory the kernel reaches.
CopyFile ==
    /\ symPc = "CopyFile"
    /\ LET d == Follow(dirs)
           ok == d.ok /\ Append(d.path, "kestrel") \notin dirs
       IN /\ symErr' = IF ok THEN "" ELSE "failed to copy kestrel"
          /\ written' = IF ok THEN written \cup {Append(d.path, "kestrel")} ELSE written
    /\ symPc' = "done"
    /\ UNCHANGED <<bin, dirs, pipeVars, mapVars, libVars>>

\* Directories the unpacked image or overlay may bring into the rootfs.
RootfsContents ==
    { {}, {RootfsPath \o <<"usr">>},
      {RootfsPath \o <<"usr">>, RootfsPath \o <<"usr", "bin">>} }

\* A build about to run installAgent.
AtInstallAgent ==
    /\ cfg \in {c \in OCIConfigs : c.FsType = "ext4" /\ c.Source = "image"
                                   /\ c.Agent.SourceStrategy = "local"}
    /\ pc = "installAgent"
    /\ ran = SubSeq(Steps(cfg), 1, IndexOf(Steps(cfg), "installAgent") - 1)
    /\ failed = <<>>
    /\ result = NoResult
    /\ scratch = {TmpDir}
    /\ RootfsReady = FALSE
    /\ MountPoint = Mnt
    /\ LoopDevicePath = ""
    /\ sysLoop = {}
    /\ sysMounted = {}
    /\ image = "none"
    /\ rootfs = [EmptyRootfs EXCEPT !["overlay"] = "image"]
    /\ output = "absent"
    /\ manifest = <<>>
    /\ ctxCancelled = FALSE
    /\ cancelledAt = ""

InitSymlink ==
    /\ AtInstallAgent
    /\ MappingsIdle
    /\ LibIdle
    /\ bin \in Targets \cup { [kind |-> k, abs |-> FALSE, comps |-> <<>>] :
                               k \in {"absent", "dir", "file"} }
    /\ \E inside \in RootfsContents :
        dirs = HostDirs \cup inside \cup (IF bin.kind = "dir" THEN {BinDir} ELSE {})
    /\ written = {}
    /\ symPc = "ensureDestDir"
    /\ symErr = ""

NextSymlink ==
    \/ ensureDestDir
    \/ CopyFile

SpecSymlink == InitSymlink /\ [][NextSymlink]_vars

----------------------------------------------------------------------------
(* The mapping engine.  Config.Mappings is a Go map from source path to    *)
(* destination path; PrepareFileMappings ranges over it, and the order of  *)
(* a range over a map is not specified.                                    *)

\* The sources on the host: two files and a directory holding one file.
SourceBytes == [s \in {"a.conf", "b.conf"} |-> IF s = "a.conf" THEN "A" ELSE "B"]
SourceDirs == {"conf.d"}
SourceDirEntries == {[name |-> "x", bytes |-> "D"]}    \* os.ReadDir("conf.d")
Sources == DOMAIN SourceBytes \cup SourceDirs

Destinations == {<<"etc">>, <<"etc", "x">>, <<"opt">>}

MappingTables == UNION { [S -> Destinations] : S \in SUBSET Sources }

Builds == {"first", "second"}

\* The staged rootfs when applyMappings starts: the directories of
\* setupDirectoryStructure that matter here, and no file.
Skeleton == [err |-> "", dirs |-> {<<>>, <<"etc">>}, files |-> {}]

NotBuilt == [err |-> "pending", dirs |-> {}, files |-> {}]

FilePaths(t) == {f[1] : f \in t.files}

\* CopyFile(src, dst, mode) into the tree `t`, for a source holding `bytes`.
CopyFileInto(t, bytes, dst) ==
    IF Prefixes(Front(dst)) \cap FilePaths(t) # {}
    THEN [t EXCEPT !.err = "failed to create destination directory"]
    ELSE IF dst \in t.dirs
    THEN [t EXCEPT !.err = "failed to create destination",
                   !.dirs = @ \cup Prefixes(Front(dst))]
    ELSE [t EXCEPT !.dirs = @ \cup Prefixes(Front(dst)),
                   !.files = {f \in @ : f[1] # dst} \cup {<<dst, bytes>>}]

RECURSIVE CopyEntries(_, _, _)
CopyEntries(t, entries, dst) ==
    IF entries = {} \/ t.err # "" THEN t
    ELSE LET e == CHOOSE x \in entries : TRUE
         IN CopyEntries(CopyFileInto(t, e.bytes, Append(dst, e.name)),
                        entries \ {e}, dst)

\* CopyDirectory(src, dst, baseMode)
CopyDirectory(t, dst) ==
    IF Prefixes(dst) \cap FilePaths(t) # {}
    THEN [t EXCEPT !.err = "failed to create directory"]
    ELSE CopyEntries([t EXCEPT !.dirs = @ \cup Prefixes(dst)], SourceDirEntries, dst)

\* PrepareFileMappings: the mappings in each order the range can take.
PrepareFileMappings(m) ==
    { order \in [1..Cardinality(DOMAIN m) -> DOMAIN m] :
        \A i, j \in DOMAIN order : order[i] = order[j] => i = j }

\* ApplyFileMappings: apply in list order, stop at the first error.
RECURSIVE ApplyFileMappings(_, _, _)
ApplyFileMappings(order, m, t) ==
    IF order = <<>> \/ t.err # "" THEN t
    ELSE LET src == Head(order)
             next == IF src \in SourceDirs THEN CopyDirectory(t, m[src])
                     ELSE CopyFileInto(t, SourceBytes[src], m[src])
         IN ApplyFileMappings(Tail(order), m, next)

\* applyMappings of one build.
applyMappings ==
    \E b \in Builds :
        /\ staged[b] = NotBuilt
        /\ \E order \in PrepareFileMappings(mappings) :
            staged' = [staged EXCEPT ![b] = ApplyFileMappings(order, mappings, Skeleton)]
        /\ UNCHANGED <<mappings, pipeVars, symVars, libVars>>

\* A build about to run applyMappings.
AtApplyMappings ==
    /\ cfg \in {c \in InitramfsConfigs :
                   /\ c.Init = NoInit /\ c.Source = "none" /\ c.BusyboxLocalPath = ""
                   /\ c.BusyboxSHA256 = GoodSum /\ c.Agent.SourceStrategy = "local"}
    /\ pc = "applyMappings"
    /\ ran = SubSeq(Steps(cfg), 1, IndexOf(Steps(cfg), "applyMappings") - 1)
    /\ failed = <<>>
    /\ result = NoResult
    /\ scratch = {TmpDir}
    /\ RootfsReady = FALSE
    /\ MountPoint = ""
    /\ LoopDevicePath = ""
    /\ sysLoop = {}
    /\ sysMounted = {}
    /\ image = "none"
    /\ rootfs = [EmptyRootfs EXCEPT !["skeleton"] = "fhs", !["modules"] = "ko",
                                    !["busybox"] = "good", !["init"] = "compiled",
                                    !["kestrel"] = "local"]
    /\ output = "absent"
    /\ manifest = <<>>
    /\ ctxCancelled = FALSE
    /\ cancelledAt = ""

InitMappings ==
    /\ AtApplyMappings
    /\ SymlinkIdle
    /\ LibIdle
    /\ mappings \in MappingTables
    /\ staged = [b \in Builds |-> NotBuilt]

NextMappings == applyMappings

SpecMappings == InitMappings /\ [][NextMappings]_vars

----------------------------------------------------------------------------
(* config.Load.  A recipe is the Config struct; a section that is a nil    *)
(* pointer is a record with present = FALSE and zero fields.  A mapping    *)
(* destination is a string of characters.                                  *)

ZeroAgent ==
    [present |-> FALSE, SourceStrategy |-> "", Version |-> "", Path |-> "",
     URL |-> "", Checksum |-> ""]

DefaultAgentConfig ==
    [ZeroAgent EXCEPT !.present = TRUE, !.SourceStrategy = "release",
                      !.Version = "latest"]

ZeroFilesystem ==
    [present |-> FALSE, Type |-> "", SizeBufferMB |-> 0, Preallocate |-> FALSE,
     CompressionLevel |-> 0, OverlaySize |-> ""]

DefaultFilesystemConfig ==
    [present |-> TRUE, Type |-> "squashfs", CompressionLevel |-> 15,
     OverlaySize |-> "1G", SizeBufferMB |-> 0, Preallocate |-> FALSE]

ZeroSource == [Image |-> "", Dockerfile |-> "", BusyboxURL |-> "", BusyboxSHA256 |-> ""]

ZeroConfig ==
    [Version |-> "", Strategy |-> "", Agent |-> ZeroAgent, Init |-> NoInit,
     Source |-> ZeroSource, Filesystem |-> ZeroFilesystem, Mappings |-> <<>>]

DefaultBusyboxURL == "https://busybox.net/"
DefaultBusyboxSHA256 == "6e123e7f"

\* config.getInitMode
Config_getInitMode(c) ==
    IF ~c.Init.present THEN "default"
    ELSE IF c.Init.None THEN "none"
    ELSE IF c.Init.Path # "" THEN "custom"
    ELSE "default"

applyDefaultsNone(c) == c

\* applyDefaults
applyDefaults(c) ==
    LET c1 == IF c.Strategy = "initramfs" /\ ~c.Agent.present
                 /\ Config_getInitMode(c) = "default"
              THEN [c EXCEPT !.Agent = DefaultAgentConfig] ELSE c
        c2 == IF c1.Strategy = "initramfs"
              THEN [c1 EXCEPT
                      !.Source.BusyboxURL = IF @ = "" THEN DefaultBusyboxURL ELSE @,
                      !.Source.BusyboxSHA256 = IF @ = "" THEN DefaultBusyboxSHA256 ELSE @]
              ELSE c1
        f == c2.Filesystem
        f1 == [f EXCEPT !.Type = IF @ = "" THEN DefaultFilesystemConfig.Type ELSE @]
        f2 == IF f1.Type = "squashfs"
              THEN [f1 EXCEPT
                      !.CompressionLevel =
                          IF @ = 0 THEN DefaultFilesystemConfig.CompressionLevel ELSE @,
                      !.OverlaySize =
                          IF @ = "" THEN DefaultFilesystemConfig.OverlaySize ELSE @]
              ELSE f1
        f3 == [f2 EXCEPT !.SizeBufferMB =
                            IF @ = 0 THEN DefaultFilesystemConfig.SizeBufferMB ELSE @]
    IN IF c2.Strategy # "oci_rootfs" THEN c2
       ELSE IF ~f.present THEN [c2 EXCEPT !.Filesystem = DefaultFilesystemConfig]
       ELSE [c2 EXCEPT !.Filesystem = f3]

\* validateInitConfig
validateInitConfig(c) ==
    IF c.Init.present /\ c.Init.None /\ c.Init.Path # ""
    THEN "[init] cannot specify both none=true and path"
    ELSE ""

\* validateAgentConfig
validateAgentConfig(agent) ==
    CASE agent.SourceStrategy = "" -> "'agent.source_strategy' is required"
      [] agent.SourceStrategy = "release" ->
            IF agent.Version = "" THEN "'agent.version' is required" ELSE ""
      [] agent.SourceStrategy = "local" ->
            IF agent.Path = "" THEN "'agent.path' is required" ELSE ""
      [] agent.SourceStrategy = "http" ->
            IF agent.URL = "" THEN "'agent.url' is required" ELSE ""
      [] OTHER -> "invalid agent.source_strategy"

validateInitramfsIgnoresAgent(c) == validateInitConfig(c)

\* validateInitramfs
validateInitramfs(c) ==
    IF validateInitConfig(c) # "" THEN validateInitConfig(c)
    ELSE CASE Config_getInitMode(c) = "default" ->
                IF ~c.Agent.present
                THEN "'agent' section is required for default init mode"
                ELSE validateAgentConfig(c.Agent)
           [] Config_getInitMode(c) = "custom" ->
                IF c.Agent.present
                THEN "'agent' section cannot be specified with custom init mode"
                ELSE ""
           [] OTHER ->
                IF c.Agent.present
                THEN "'agent' section cannot be specified with no-init mode"
                ELSE ""

CompressionLevelNeverOutOfRange(level) == FALSE

\* validateOCIRootfs: CompressionLevel < 0 || CompressionLevel > 22
CompressionLevelOutOfRange(level) == level < 0 \/ level > 22

\* validateOCIRootfs
validateOCIRootfs(c) ==
    IF c.Source.Image = "" /\ c.Source.Dockerfile = ""
    THEN "either 'source.image' or 'source.dockerfile' is required"
    ELSE IF c.Source.Image # "" /\ c.Source.Dockerfile # ""
    THEN "only one of 'source.image' or 'source.dockerfile' may be specified"
    ELSE IF ~c.Filesystem.present
    THEN "'filesystem' section is required for oci_rootfs strategy"
    ELSE IF c.Filesystem.Type \notin {"squashfs", "ext4", "xfs", "btrfs"}
    THEN "invalid filesystem type"
    ELSE IF c.Filesystem.Type = "squashfs"
            /\ CompressionLevelOutOfRange(c.Filesystem.CompressionLevel)
    THEN "squashfs compression_level must be between 0-22"
    ELSE IF c.Filesystem.Type = "squashfs" /\ c.Filesystem.OverlaySize = ""
    THEN "squashfs overlay_size is required"
    ELSE IF c.Filesystem.SizeBufferMB < 0
    THEN "filesystem.size_buffer_mb must be non-negative"
    ELSE ""

\* filepath.IsAbs
IsAbs(path) == path # <<>> /\ path[1] = "/"

\* strings.Contains(dst, "..")
ContainsDotDot(dst) == \E i \in 1..(Len(dst) - 1) : dst[i] = "." /\ dst[i + 1] = "."

\* The body of the loop of validateMappings for one entry.
MappingError(src, dst) ==
    IF src = "" THEN "mapping source path cannot be empty"
    ELSE IF dst = <<>> THEN "mapping destination path cannot be empty"
    ELSE IF ~IsAbs(dst) THEN "mapping destination must be an absolute path"
    ELSE IF ContainsDotDot(dst) THEN "mapping destination contains '..'"
    ELSE ""

validateMappingsAcceptsAll(m) == {""}

\* validateMappings: the errors it can return ("" for nil).  It returns at
\* the first bad entry the range over the map reaches, which can be any.
validateMappings(m) ==
    LET errs == {MappingError(src, m[src]) : src \in DOMAIN m} \ {""}
    IN IF errs = {} THEN {""} ELSE errs

\* Validate: the errors it can return.
Validate(c) ==
    LET strategyErr ==
            CASE c.Strategy = "oci_rootfs" -> validateOCIRootfs(c)
              [] c.Strategy = "initramfs" -> validateInitramfs(c)
              [] OTHER -> ""
    IN IF c.Version = "" THEN {"'version' field is required"}
       ELSE IF c.Version # "1" THEN {"unsupported config version"}
       ELSE IF c.Strategy = "" THEN {"'strategy' field is required"}
       ELSE IF c.Strategy \notin {"oci_rootfs", "initramfs"} THEN {"invalid strategy"}
       ELSE IF strategyErr # "" THEN {strategyErr}
       ELSE validateMappings(c.Mappings)

NotLoaded == [done |-> FALSE, err |-> "", cfg |-> ZeroConfig]

\* What Load can return for the struct toml.Unmarshal produced: nil and an
\* error, or the recipe with defaults applied.
LoadResults(c) ==
    { [done |-> TRUE, err |-> e, cfg |-> IF e = "" THEN applyDefaults(c) ELSE ZeroConfig] :
        e \in Validate(applyDefaults(c)) }

\* The keys a TOML writer puts out for a recipe, by the struct tags: a
\* section that is a nil pointer is left out, an omitempty field is left out
\* when it is zero, every other field is written.
KeysWritten(c) ==
    {"version", "strategy", "source"}
    \cup (IF c.Agent.present THEN {"agent", "agent.source_strategy"} ELSE {})
    \cup (IF c.Agent.present /\ c.Agent.Version # "" THEN {"agent.version"} ELSE {})
    \cup (IF c.Agent.present /\ c.Agent.Path # "" THEN {"agent.path"} ELSE {})
    \cup (IF c.Agent.present /\ c.Agent.URL # "" THEN {"agent.url"} ELSE {})
    \cup (IF c.Agent.present /\ c.Agent.Checksum # "" THEN {"agent.checksum"} ELSE {})
    \cup (IF c.Init.present THEN {"init"} ELSE {})
    \cup (IF c.Init.present /\ c.Init.Path # "" THEN {"init.path"} ELSE {})
    \cup (IF c.Init.present /\ c.Init.None THEN {"init.none"} ELSE {})
    \cup (IF c.Source.Image # "" THEN {"source.image"} ELSE {})
    \cup (IF c.Source.Dockerfile # "" THEN {"source.dockerfile"} ELSE {})
    \cup (IF c.Source.BusyboxURL # "" THEN {"source.busybox_url"} ELSE {})
    \cup (IF c.Source.BusyboxSHA256 # "" THEN {"source.busybox_sha256"} ELSE {})
    \cup (IF c.Filesystem.present
          THEN {"filesystem", "filesystem.type", "filesystem.size_buffer_mb",
                "filesystem.preallocate", "filesystem.compression_level",
                "filesystem.overlay_size"}
          ELSE {})
    \cup (IF DOMAIN c.Mappings # {} THEN {"mappings"} ELSE {})

SerializeWithoutAgent(c) ==
    [keys |-> {k \in KeysWritten(c) : k \notin {"agent", "agent.source_strategy",
                                                "agent.version", "agent.path",
                                                "agent.url", "agent.checksum"}},
     values |-> c]

\* The document written for a recipe: its keys and their values.
Serialize(c) == [keys |-> KeysWritten(c), values |-> c]

\* toml.Unmarshal into a zero Config: a key that is not in the document
\* leaves its field zero, a table that is not there leaves its pointer nil.
Parse(doc) ==
    LET has(k) == k \in doc.keys
        v == doc.values
    IN [Version |-> IF has("version") THEN v.Version ELSE "",
        Strategy |-> IF has("strategy") THEN v.Strategy ELSE "",
        Agent |->
            IF ~has("agent") THEN ZeroAgent
            ELSE [present |-> TRUE,
                  SourceStrategy |->
                      IF has("agent.source_strategy") THEN v.Agent.SourceStrategy ELSE "",
                  Version |-> IF has("agent.version") THEN v.Agent.Version ELSE "",
                  Path |-> IF has("agent.path") THEN v.Agent.Path ELSE "",
                  URL |-> IF has("agent.url") THEN v.Agent.URL ELSE "",
                  Checksum |-> IF has("agent.checksum") THEN v.Agent.Checksum ELSE ""],
        Init |->
            IF ~has("init") THEN NoInit
            ELSE [present |-> TRUE,
                  None |-> IF has("init.none") THEN v.Init.None ELSE FALSE,
                  Path |-> IF has("init.path") THEN v.Init.Path ELSE ""],
        Source |->
            [Image |-> IF has("source.image") THEN v.Source.Image ELSE "",
             Dockerfile |-> IF has("source.dockerfile") THEN v.Source.Dockerfile ELSE "",
             BusyboxURL |-> IF has("source.busybox_url") THEN v.Source.BusyboxURL ELSE "",
             BusyboxSHA256 |->
                 IF has("source.busybox_sha256") THEN v.Source.BusyboxSHA256 ELSE ""],
        Filesystem |->
            IF ~has("filesystem") THEN ZeroFilesystem
            ELSE [present |-> TRUE,
                  Type |-> IF has("filesystem.type") THEN v.Filesystem.Type ELSE "",
                  SizeBufferMB |->
                      IF has("filesystem.size_buffer_mb")
                      THEN v.Filesystem.SizeBufferMB ELSE 0,
                  Preallocate |->
                      IF has("filesystem.preallocate")
                      THEN v.Filesystem.Preallocate ELSE FALSE,
                  CompressionLevel |->
                      IF has("filesystem.compression_level")
                      THEN v.Filesystem.CompressionLevel ELSE 0,
                  OverlaySize |->
                      IF has("filesystem.overlay_size")
                      THEN v.Filesystem.OverlaySize ELSE ""],
        Mappings |-> IF has("mappings") THEN v.Mappings ELSE <<>>]

\* Recipes a fledge.toml can hold.
RawAgents ==
    { ZeroAgent,
      [ZeroAgent EXCEPT !.present = TRUE],
      [ZeroAgent EXCEPT !.present = TRUE, !.SourceStrategy = "release"],
      [ZeroAgent EXCEPT !.present = TRUE, !.SourceStrategy = "release", !.Version = "v1"],
      [ZeroAgent EXCEPT !.present = TRUE, !.SourceStrategy = "local", !.Path = "/k"],
      [ZeroAgent EXCEPT !.present = TRUE, !.SourceStrategy = "http", !.URL = "http://k",
                        !.Checksum = "sha256:ab"],
      [ZeroAgent EXCEPT !.present = TRUE, !.SourceStrategy = "docker"] }

RawInits == {NoInit} \cup [present : {TRUE}, None : BOOLEAN, Path : {"", "my-init"}]

RawSources ==
    [Image : {"", "nginx"}, Dockerfile : {"", "Dockerfile"}, BusyboxURL : {""},
     BusyboxSHA256 : {"", "abcd"}]

Levels == -1..23

RawFilesystems ==
    {ZeroFilesystem}
    \cup [present : {TRUE}, Type : {"", "squashfs", "ext4", "zfs"},
          SizeBufferMB : {-1, 0, 100}, Preallocate : {FALSE},
          CompressionLevel : Levels, OverlaySize : {"", "512M"}]

MaxDstLen == 3

DstStrings == UNION { [1..n -> {"/", ".", "a"}] : n \in 0..MaxDstLen }

RawMappings == UNION { [S -> DstStrings] : S \in SUBSET {"", "s"} }

\* A recipe with nothing wrong in it, of each strategy.
GoodRecipe(strategy) ==
    [Version |-> "1", Strategy |-> strategy,
     Agent |-> [ZeroAgent EXCEPT !.present = TRUE, !.SourceStrategy = "local",
                                 !.Path = "/k"],
     Init |-> NoInit,
     Source |-> [ZeroSource EXCEPT !.Image = IF strategy = "oci_rootfs" THEN "nginx" ELSE ""],
     Filesystem |-> ZeroFilesystem, Mappings |-> <<>>]

\* Recipes that differ in their sections other than [filesystem] and
\* [mappings]; in [filesystem]; in [mappings].
RawRecipes ==
    { [Version |-> v, Strategy |-> st, Agent |-> a, Init |-> i, Source |-> src,
       Filesystem |-> f, Mappings |-> <<>>] :
        v \in {"1", "2", ""}, st \in {"oci_rootfs", "initramfs", "vm", ""},
        a \in RawAgents, i \in RawInits, src \in RawSources,
        f \in {ZeroFilesystem, [DefaultFilesystemConfig EXCEPT !.Type = "ext4"]} }
    \cup { [GoodRecipe(st) EXCEPT !.Filesystem = f] :
            st \in {"oci_rootfs", "initramfs"}, f \in RawFilesystems }
    \cup { [GoodRecipe(st) EXCEPT !.Mappings = m] :
            st \in {"oci_rootfs", "initramfs"}, m \in RawMappings }

\* Load(path), from where toml.Unmarshal has filled the struct.
Load ==
    /\ ~loaded.done
    /\ loaded' \in LoadResults(recipe)
    /\ UNCHANGED <<recipe, reloaded, pipeVars, symVars, mapVars, modeVars, treeVars,
                   toolVars>>

\* The recipe Load returned is written out and loaded again.
Reload ==
    /\ loaded.done /\ loaded.err = ""
    /\ ~reloaded.done
    /\ reloaded' \in LoadResults(Parse(Serialize(loaded.cfg)))
    /\ UNCHANGED <<recipe, loaded, pipeVars, symVars, mapVars, modeVars, treeVars,
                   toolVars>>

\* No builder exists yet.
BeforeLoad ==
    /\ cfg = [Strategy |-> "", FsType |-> "", Builder |-> "", Source |-> "none",
              Init |-> NoInit, Agent |-> NoAgent, BusyboxLocalPath |-> "",
              BusyboxSHA256 |-> <<>>]
    /\ pc = "Load"
    /\ ran = <<>>
    /\ failed = <<>>
    /\ result = NoResult
    /\ scratch = {}
    /\ RootfsReady = FALSE
    /\ MountPoint = ""
    /\ LoopDevicePath = ""
    /\ sysLoop = {}
    /\ sysMounted = {}
    /\ image = "none"
    /\ rootfs = EmptyRootfs
    /\ output = "absent"
    /\ manifest = <<>>
    /\ ctxCancelled = FALSE
    /\ cancelledAt = ""
    /\ SymlinkIdle
    /\ MappingsIdle

InitConfig ==
    /\ BeforeLoad
    /\ FileModeIdle
    /\ CopyTreeIdle
    /\ ToolsIdle
    /\ recipe \in RawRecipes
    /\ loaded = NotLoaded
    /\ reloaded = NotLoaded

NextConfig ==
    \/ Load
    \/ Reload

SpecConfig == InitConfig /\ [][NextConfig]_vars

----------------------------------------------------------------------------
(* The mode of a mapped file.  An os.FileMode is the set of its bits: the  *)
(* permission bits <<class, permission>> and the directory bit.  A path is *)
(* the sequence of its components.                                         *)

Classes == {"u", "g", "o"}

ModeDir == <<"d", "dir">>

Mode0111 == Classes \X {"x"}

Mode0666 == Classes \X {"r", "w"}

Mode0755 == ({"u"} \X {"r", "w", "x"}) \cup ({"g", "o"} \X {"r", "x"})

Mode0644 == ({"u"} \X {"r", "w"}) \cup ({"g", "o"} \X {"r"})

fhsExecutablePaths ==
    { <<"bin">>, <<"sbin">>, <<"usr", "bin">>, <<"usr", "sbin">>,
      <<"usr", "local", "bin">>, <<"usr", "local", "sbin">>,
      <<"opt", "bin">>, <<"opt", "sbin">> }

fhsLibraryPaths ==
    { <<"lib">>, <<"lib64">>, <<"usr", "lib">>, <<"usr", "lib64">>,
      <<"usr", "local", "lib">>, <<"usr", "local", "lib64">> }

\* strings.HasPrefix(path, prefix), the prefix ending in "/", or
\* path == strings.TrimSuffix(prefix, "/").
HasPrefix(path, prefix) ==
    /\ Len(prefix) <= Len(path)
    /\ \A i \in 1..Len(prefix) : path[i] = prefix[i]

isInFHSExecutablePath(path) == \E prefix \in fhsExecutablePaths : HasPrefix(path, prefix)

\* The file names with the extension ".so" or with ".so." inside.
SharedObjects == {"libx.so", "libx.so.1"}

isInFHSLibraryPath(path) ==
    \E prefix \in fhsLibraryPaths :
        /\ HasPrefix(path, prefix)
        /\ path[Len(path)] \in SharedObjects

normalizeExecutableModeKeeps(mode) == mode

normalizeExecutableMode(mode) ==
    IF mode \cap Mode0111 # {}
    THEN (mode \cap Mode0666)
         \cup { <<c, "x">> : c \in { k \in Classes : <<k, "r">> \in mode } }
    ELSE mode

DetermineFileMode(path, baseMode) ==
    IF ModeDir \in baseMode THEN Mode0755
    ELSE IF baseMode \cap Mode0111 # {} THEN normalizeExecutableMode(baseMode)
    ELSE IF isInFHSExecutablePath(path) THEN Mode0755
    ELSE IF isInFHSLibraryPath(path) THEN Mode0755
    ELSE Mode0644

\* Destinations: a file right under each executable directory, one deeper,
\* the executable directory itself, a library, and files elsewhere.
Destinations_Mode ==
    { Append(prefix, "tool") : prefix \in fhsExecutablePaths }
    \cup { <<"usr", "bin", "sub", "tool">>, <<"bin">> }
    \cup { <<"lib", "libx.so">>, <<"usr", "lib", "libx.so.1">>, <<"lib", "data.txt">>,
           <<"etc", "app.conf">>, <<"binx", "tool">>, <<"usr", "share", "bin", "tool">> }

SourceModes == SUBSET ((Classes \X {"r", "w", "x"}) \cup {ModeDir})

\* mode := DetermineFileMode(dst, info) for one mapped source.
ResolveMode ==
    /\ destMode = Undetermined
    /\ destMode' = DetermineFileMode(destPath, srcMode)
    /\ UNCHANGED <<srcMode, destPath, confVars, treeVars, pipeVars, symVars, mapVars,
                   toolVars>>

InitFileMode ==
    /\ BeforeLoad
    /\ ConfigIdle
    /\ CopyTreeIdle
    /\ ToolsIdle
    /\ srcMode \in SourceModes
    /\ destPath \in Destinations_Mode
    /\ destMode = Undetermined

NextFileMode == ResolveMode

SpecFileMode == InitFileMode /\ [][NextFileMode]_vars

----------------------------------------------------------------------------
(* Copying one mapping whose source holds symbolic links.  A tree is a     *)
(* function from the paths below the mapped source (or destination) to     *)
(* what is there; the empty path is the source (destination) itself.       *)

ModeSymlink == <<"L", "symlink">>

ModeAll == Classes \X {"r", "w", "x"}

FileNode(bytes, mode) == [kind |-> "file", bytes |-> bytes, target |-> <<>>, mode |-> mode]

DirNode == [kind |-> "dir", bytes |-> "", target |-> <<>>, mode |-> Mode0755 \cup {ModeDir}]

\* What Lstat says of a link: the link and its target string.
LinkNode(target) ==
    [kind |-> "link", bytes |-> "", target |-> target, mode |-> ModeAll \cup {ModeSymlink}]

Missing == [kind |-> "missing", bytes |-> "", target |-> <<>>, mode |-> {}]

\* A regular file of the host outside the mapped source.
HostPath == <<"/", "etc", "hostname">>

\* Where the mapping puts its source in the artifact.
MappingDestination == <<"opt", "app">>

\* What a path of the source is once the links are followed, as os.Stat and
\* os.Open see it: a relative target is looked up from the link's directory.
RECURSIVE Resolve(_, _)
Resolve(tree, path) ==
    IF path \notin DOMAIN tree THEN Missing
    ELSE IF tree[path].kind # "link" THEN tree[path]
    ELSE LET t == tree[path].target
         IN IF t[1] = "/"
            THEN IF t = HostPath THEN FileNode("host", Mode0644) ELSE Missing
            ELSE Resolve(tree, Clean(Front(path) \o t))

WithEntry(tree, path, node) ==
    [q \in DOMAIN tree \cup {path} |-> IF q = path THEN node ELSE tree[q]]

\* The names a source directory can hold, in the order os.ReadDir lists them.
NameOrder == <<"a", "b", "l", "m", "sub">>

\* entries, err := os.ReadDir(src)
ReadDir(path) ==
    SelectSeq([i \in 1..Len(NameOrder) |-> Append(path, NameOrder[i])],
              LAMBDA q : q \in DOMAIN srcTree)

\* The mode of a file os.OpenFile creates, under the usual umask 022.
Created(mode) == mode \ {<<"g", "w">>, <<"o", "w">>}

\* CopyFile(src, dst, mode) into a destination that does not hold dst yet.
CopyFileFollowing(st, path, mode) ==
    LET opened == Resolve(srcTree, path)
    IN IF opened.kind = "missing"
       THEN [st EXCEPT !.err = "failed to open source"]
       ELSE IF opened.kind = "dir"
       THEN [tree |-> WithEntry(st.tree, path, FileNode("", Created(mode))),
             err |-> "failed to copy file contents"]
       ELSE [st EXCEPT !.tree = WithEntry(@, path, FileNode(opened.bytes, mode))]

RECURSIVE CopyDirectoryFollowing(_, _)
RECURSIVE CopyEntriesFollowing(_, _)

\* The loop of CopyDirectory over the entries of one directory.
CopyEntriesFollowing(st, entries) ==
    IF entries = <<>> \/ st.err # "" THEN st
    ELSE LET e == Head(entries)
             info == srcTree[e]
             next == IF info.kind = "dir"
                     THEN CopyDirectoryFollowing(st, e)
                     ELSE CopyFileFollowing(st, e,
                              DetermineFileMode(MappingDestination \o e, info.mode))
         IN CopyEntriesFollowing(next, Tail(entries))

\* CopyDirectory(src, dst, baseMode)
CopyDirectoryFollowing(st, path) ==
    CopyEntriesFollowing([st EXCEPT !.tree = WithEntry(@, path, DirNode)], ReadDir(path))

NotCopied == "not copied yet"

\* PrepareFileMappings and ApplyFileMappings for the one mapping.
ApplyMapping ==
    /\ treeErr = NotCopied
    /\ LET info == Resolve(srcTree, <<>>)
           start == [tree |-> dstTree, err |-> ""]
           end == IF info.kind = "missing"
                  THEN [start EXCEPT !.err = "source file does not exist"]
                  ELSE IF info.kind = "dir"
                  THEN CopyDirectoryFollowing(start, <<>>)
                  ELSE CopyFileFollowing(start, <<>>,
                           DetermineFileMode(MappingDestination, info.mode))
       IN /\ dstTree' = end.tree
          /\ treeErr' = end.err
    /\ UNCHANGED <<srcTree, confVars, modeVars, pipeVars, symVars, mapVars, toolVars>>

\* The paths a source directory can hold, and the sets of them that hold
\* the directory of each path they hold.
SourcePaths == {<<"a">>, <<"l">>, <<"sub">>, <<"sub", "b">>, <<"sub", "m">>}

SourceShapes == { S \in SUBSET SourcePaths : \A q \in S : Len(q) = 1 \/ Front(q) \in S }

TreeOf(S, tl, tm) ==
    [q \in S \cup {<<>>} |->
        CASE q = <<"a">> -> FileNode("A", Mode0644)
          [] q = <<"l">> -> LinkNode(tl)
          [] q = <<"sub", "b">> -> FileNode("B", Mode0644)
          [] q = <<"sub", "m">> -> LinkNode(tm)
          [] OTHER -> DirNode]

\* The mapped sources: a directory, with links to a file and to a directory
\* beside them, to a file above them, to a file of the host and to nothing;
\* and a link to a regular file.
SourceTrees ==
    { TreeOf(S, tl, tm) :
        S \in SourceShapes,
        tl \in {<<"a">>, <<"sub">>, HostPath, <<"gone">>},
        tm \in {<<"b">>, <<"..", "a">>, HostPath, <<"gone">>} }
    \cup { [q \in {<<>>} |-> LinkNode(HostPath)] }

InitCopyTree ==
    /\ BeforeLoad
    /\ ConfigIdle
    /\ FileModeIdle
    /\ ToolsIdle
    /\ srcTree \in SourceTrees
    /\ dstTree = <<>>
    /\ treeErr = NotCopied

NextCopyTree == ApplyMapping

SpecCopyTree == InitCopyTree /\ [][NextCopyTree]_vars

----------------------------------------------------------------------------
(* Properties of the build pipelines.                                      *)

Returned == pc = "returned"

IsPrefix(s, t) == Len(s) <= Len(t) /\ \A i \in 1..Len(s) : s[i] = t[i]

StepSet(c) == {Steps(c)[i] : i \in 1..Len(Steps(c))}

\* C1: once Build has returned from a legacy block-image build, with nil or
\* with the error of any step, the build's loop device is not attached and
\* its mount point is not mounted.
C1_NothingAttachedOrMountedAfterBuild ==
    (Returned /\ OCI /\ Legacy(cfg)) => (LoopDev \notin sysLoop /\ Mnt \notin sysMounted)

\* C2: once Build has returned, from either builder and on every path, none
\* of the build's scratch resources exists: the temporary directory, the
\* downloaded busybox, the sourced agent temp file, the uncompressed CPIO.
C2_NoScratchAfterBuild == Returned => scratch = {}

\* C4: a build whose context was cancelled while a step was the current one
\* starts no later step and returns a Cancelled error, with nothing left
\* mounted, attached or in the scratch directory.
C4_CancelledBuildStopsAndReturnsCancelled ==
    (Returned /\ ctxCancelled /\ cancelledAt \in StepSet(cfg)) =>
        /\ result.kind = "cancelled"
        /\ Len(ran) <= IndexOf(Steps(cfg), cancelledAt)
        /\ sysMounted = {} /\ sysLoop = {} /\ TmpDir \notin scratch

\* C5: when Build has returned an error, no file exists at the final output
\* path.
C5_NoArtifactWhenBuildFails == (Returned /\ result.kind = "error") => output = "absent"

\* C6: when Build has returned success, of either strategy, the manifest
\* sidecar exists and records the SHA-256 of the bytes at the output path.
C6_ManifestMatchesArtifact ==
    (Returned /\ result.kind = "ok") =>
        (manifest # <<>> /\ manifest = <<P>> \o CalculateSHA256(output))

\* C7 as stated: the steps run in their declared order; once any step has
\* returned an error it is the last step run, and Build returns an error made
\* of that step's prefix and that step's error.
C7_AnyStepErrorAbortsBuild ==
    /\ IsPrefix(ran, Steps(cfg))
    /\ \A i \in 1..Len(failed) :
        /\ i = Len(failed)
        /\ failed[i][1] = ran[Len(ran)]
        /\ pc \in {"cleanup", "RemoveAll", "returned"}
        /\ result.kind = "error"
        /\ result.prefix = ErrPrefix(cfg, failed[i][1])
        /\ result.cause = failed[i][2]

\* C7: the steps run in their declared order; once a step other than the
\* kernel-module injection has returned an error it is the last step run,
\* and Build returns an error made of that step's prefix, which no other step
\* of the build has, and that step's error.
C7_StepErrorAbortsBuild ==
    /\ IsPrefix(ran, Steps(cfg))
    /\ \A s, t \in StepSet(cfg) : ErrPrefix(cfg, s) = ErrPrefix(cfg, t) => s = t
    /\ \A i \in 1..Len(failed) :
        failed[i][1] # "installKernelModules" =>
            /\ i = Len(failed)
            /\ failed[i][1] = ran[Len(ran)]
            /\ pc \in {"cleanup", "RemoveAll", "returned"}
            /\ result.kind = "error"
            /\ result.prefix = ErrPrefix(cfg, failed[i][1])
            /\ result.cause = failed[i][2]

\* A step other than the kernel-module injection has failed and Build has
\* returned its error; and a build whose kernel-module injection failed has
\* gone on to later steps.
C7_Witness_StepFailed ==
    /\ Returned
    /\ failed # <<>>
    /\ failed[Len(failed)][1] = "installBusybox"
    /\ failed[1][1] = "installKernelModules"
    /\ result.kind = "error"

\* C8: a legacy build runs its steps in the declared order; the copy step
\* runs only while the image is loop-attached and mounted; the shrink step
\* and the move run only when it is neither mounted nor attached.
C8_LegacyOrderAndMountDiscipline ==
    (OCI /\ Legacy(cfg)) =>
        /\ IsPrefix(ran, LegacySteps)
        /\ pc = "copyRootfsToImage" => (Mnt \in sysMounted /\ LoopDev \in sysLoop)
        /\ pc \in {"shrinkFilesystem", "moveToFinal"} =>
               (Mnt \notin sysMounted /\ LoopDev \notin sysLoop)

----------------------------------------------------------------------------
(* Checksum verification.                                                  *)

\* `expected` is `hex`, in either case, between optional spaces and after an
\* optional "sha256:".
SpellsDigest(expected, hex) ==
    LET e == IF expected # <<>> /\ expected[1] = P
             THEN SubSeq(expected, 2, Len(expected)) ELSE expected
    IN \E lo \in 1..(Len(e) + 1), hi \in 0..Len(e) :
        /\ hi - lo + 1 = Len(hex)
        /\ \A k \in 1..Len(e) : (k < lo \/ k > hi) => e[k] = SP
        /\ \A k \in 1..Len(hex) : LowerChar(e[lo + k - 1]) = hex[k]
        /\ hex # <<>> => (e[lo] # SP /\ e[hi] # SP)

Digests == {CalculateSHA256(b) : b \in Downloaded}

\* The checksum the recipe gives for the file a step installs.
ExpectedFor(step) ==
    IF step = "installBusybox" THEN cfg.BusyboxSHA256 ELSE cfg.Agent.Checksum

EntryOf(step) == IF step = "installBusybox" THEN "busybox" ELSE "kestrel"

\* C10: a downloaded busybox, or an http agent, is in the rootfs only if no
\* checksum is configured or the configured one spells its SHA-256; a
\* checksum mismatch carries the configured digest, in lower case without
\* prefix and spaces, and the differing digest of the download, fails the
\* build and installs nothing.
C10_InstalledOnlyWhenChecksumMatches ==
    /\ \A step \in {"installBusybox", "installAgent"} :
        rootfs[EntryOf(step)] \in Downloaded =>
            \/ ExpectedFor(step) = <<>>
            \/ SpellsDigest(ExpectedFor(step), CalculateSHA256(rootfs[EntryOf(step)]))
    /\ \A i \in 1..Len(failed) :
        failed[i][2].kind = "checksum mismatch" =>
            /\ failed[i][1] \in {"installBusybox", "installAgent"}
            /\ ExpectedFor(failed[i][1]) # <<>>
            /\ failed[i][2].got \in Digests
            /\ failed[i][2].got # failed[i][2].expected
            /\ SpellsDigest(ExpectedFor(failed[i][1]), failed[i][2].expected)
            /\ ~SpellsDigest(ExpectedFor(failed[i][1]), failed[i][2].got)
            /\ rootfs[EntryOf(failed[i][1])] = "absent"
            /\ result.kind = "error"
            /\ result.cause = failed[i][2]

\* A busybox was installed after its digest matched a checksum written in
\* upper case with a trailing space.
C10_Witness_VerifiedInstall ==
    /\ cfg.BusyboxSHA256 = <<"A", "b", SP>>
    /\ rootfs["busybox"] = "good"

----------------------------------------------------------------------------
(* The agent and a symlinked /bin.                                         *)

\* C3: when installAgent is over, either it failed with the unsafe-symlink
\* error or every file it wrote and every directory it made is inside the
\* rootfs, whatever <rootfs>/bin was.
C3_AgentWrittenOnlyInsideRootfs ==
    symPc = "done" =>
        \/ symErr = "symlink points outside rootfs"
        \/ /\ \A f \in written : Inside(f)
           /\ \A d \in dirs \ HostDirs : Inside(d)

----------------------------------------------------------------------------
(* Reproducibility.                                                        *)

\* What createArchive packs: the staged tree, when applyMappings succeeded.
Archived(t) ==
    IF t.err = "" THEN [made |-> TRUE, dirs |-> t.dirs, files |-> t.files]
    ELSE [made |-> FALSE, dirs |-> {}, files |-> {}]

\* C9: two builds of one recipe archive the same tree, or both fail,
\* whatever order each applied the mappings in.
C9_MappingOrderDoesNotMatter ==
    (\A b \in Builds : staged[b] # NotBuilt) =>
        Archived(staged["first"]) = Archived(staged["second"])

----------------------------------------------------------------------------
(* Loading a recipe.                                                       *)

Accepted == loaded.done /\ loaded.err = ""

Rejected == loaded.done /\ loaded.err # ""

\* The [init] section says neither none nor path.
SaysDefault(c) == ~c.Init.present \/ (~c.Init.None /\ c.Init.Path = "")

\* C11: the init mode is Default when [init] is absent or empty, None when
\* none=true, Custom when only path is set; the validation and the builder
\* compute the same mode; and Load rejects a recipe with both none=true and
\* a path.
C11_InitModeAndRejection ==
    /\ SaysDefault(recipe) => Config_getInitMode(recipe) = "default"
    /\ (recipe.Init.present /\ recipe.Init.None) => Config_getInitMode(recipe) = "none"
    /\ (recipe.Init.present /\ ~recipe.Init.None /\ recipe.Init.Path # "") =>
           Config_getInitMode(recipe) = "custom"
    /\ getInitMode(recipe) = Config_getInitMode(recipe)
    /\ getInitMode(loaded.cfg) = Config_getInitMode(loaded.cfg)
    /\ (loaded.done /\ recipe.Init.present /\ recipe.Init.None /\ recipe.Init.Path # "")
           => Rejected

\* C12: an initramfs recipe that Load accepted has an agent exactly when its
\* [init] says Default; if the recipe had no [agent] the agent is the
\* release "latest"; in the other modes the recipe had no [agent] and none
\* was added.
C12_AgentIffDefaultMode ==
    (Accepted /\ recipe.Strategy = "initramfs") =>
        /\ loaded.cfg.Agent.present <=> SaysDefault(loaded.cfg)
        /\ (SaysDefault(recipe) /\ ~recipe.Agent.present) =>
               loaded.cfg.Agent =
                   [present |-> TRUE, SourceStrategy |-> "release",
                    Version |-> "latest", Path |-> "", URL |-> "", Checksum |-> ""]
        /\ ~SaysDefault(recipe) => (~recipe.Agent.present /\ ~loaded.cfg.Agent.present)

\* Load has accepted an initramfs recipe without [agent] and given it the
\* default agent.
C12_Witness_DefaultAgent ==
    /\ Accepted
    /\ recipe.Strategy = "initramfs"
    /\ ~recipe.Agent.present
    /\ loaded.cfg.Agent.Version = "latest"

\* C13: a recipe that Load accepted does not set both source.image and
\* source.dockerfile, whatever its strategy, and an accepted oci_rootfs
\* recipe sets exactly one of them.
C13_ImageAndDockerfileExclusive ==
    Accepted =>
        /\ ~(recipe.Source.Image # "" /\ recipe.Source.Dockerfile # "")
        /\ recipe.Strategy = "oci_rootfs" =>
               (recipe.Source.Image # "" \/ recipe.Source.Dockerfile # "")

\* C14: an oci_rootfs recipe that Load accepted has an [agent] section.
C14_OCIRecipeHasAgent ==
    (Accepted /\ recipe.Strategy = "oci_rootfs") => loaded.cfg.Agent.present

SquashfsRecipe ==
    /\ recipe = [GoodRecipe("oci_rootfs") EXCEPT !.Filesystem = recipe.Filesystem]
    /\ recipe.Filesystem.present
    /\ recipe.Filesystem.Type = "squashfs"

\* C16: Load rejects an oci_rootfs recipe with a squashfs filesystem whose
\* compression_level is below 0 or above 22, accepts one whose level is
\* within 0..22 (0 and 22 among them) when nothing else is wrong, and every
\* accepted oci_rootfs recipe with a squashfs filesystem has a level within
\* 1..22.  ([filesystem] is ignored for initramfs recipes.)
C16_CompressionLevelRange ==
    /\ (loaded.done /\ SquashfsRecipe) =>
        /\ (recipe.Filesystem.CompressionLevel < 0
            \/ recipe.Filesystem.CompressionLevel > 22) => Rejected
        /\ (recipe.Filesystem.CompressionLevel \in 0..22
            /\ recipe.Filesystem.SizeBufferMB >= 0) => Accepted
    /\ (Accepted /\ recipe.Strategy = "oci_rootfs"
        /\ loaded.cfg.Filesystem.Type = "squashfs") =>
           loaded.cfg.Filesystem.CompressionLevel \in 1..22

\* Load has accepted a squashfs recipe with compression_level 0 and made it 15.
C16_Witness_LevelZeroAccepted ==
    /\ Accepted
    /\ SquashfsRecipe
    /\ recipe.Filesystem.CompressionLevel = 0
    /\ loaded.cfg.Filesystem.CompressionLevel = 15

\* The mapping is one Load must refuse.
BadMapping(src, dst) ==
    \/ src = ""
    \/ dst = <<>>
    \/ dst[1] # "/"
    \/ \E i \in 1..(Len(dst) - 1) : <<dst[i], dst[i + 1]>> = <<".", ".">>

\* C17: Load fails for a recipe with a mapping whose source is empty or whose
\* destination is not absolute or contains ".."; every mapping of an
\* accepted recipe has an absolute destination free of "..".
C17_BadMappingsRejected ==
    loaded.done =>
        /\ (\E src \in DOMAIN recipe.Mappings : BadMapping(src, recipe.Mappings[src]))
               => Rejected
        /\ Accepted =>
               /\ loaded.cfg.Mappings = recipe.Mappings
               /\ \A src \in DOMAIN loaded.cfg.Mappings :
                      ~BadMapping(src, loaded.cfg.Mappings[src])

\* Load has rejected a recipe for a destination with ".." in it.
C17_Witness_DotDotRejected ==
    /\ Rejected
    /\ DOMAIN recipe.Mappings = {"s"}
    /\ recipe.Mappings["s"] = <<"/", ".", ".">>

----------------------------------------------------------------------------
(* The mode of a file mapped into an executable directory.                 *)

\* The destination is a file below one of the FHS executable directories.
UnderExecutablePrefix ==
    \E prefix \in { <<"bin">>, <<"sbin">>, <<"usr", "bin">>, <<"usr", "sbin">>,
                    <<"usr", "local", "bin">>, <<"usr", "local", "sbin">>,
                    <<"opt", "bin">>, <<"opt", "sbin">> } :
        /\ Len(destPath) > Len(prefix)
        /\ SubSeq(destPath, 1, Len(prefix)) = prefix

\* C19: for a regular file mapped below an FHS executable directory, the
\* mode DetermineFileMode returns has the execute bit of a class exactly
\* when it has the read bit of that class.
C19_ExecuteFollowsRead ==
    (destMode # Undetermined /\ ModeDir \notin srcMode /\ UnderExecutablePrefix) =>
        \A c \in {"u", "g", "o"} : (<<c, "x">> \in destMode) <=> (<<c, "r">> \in destMode)

\* A file of mode 0710 mapped to /usr/bin/tool has got mode 0700.
C19_Witness_Normalised ==
    /\ srcMode = {<<"u", "r">>, <<"u", "w">>, <<"u", "x">>, <<"g", "x">>}
    /\ destPath = <<"usr", "bin", "tool">>
    /\ destMode = {<<"u", "r">>, <<"u", "w">>, <<"u", "x">>}

----------------------------------------------------------------------------
(* Symbolic links in a mapped source.                                      *)

\* C20: after a directory has been mapped, every symbolic link below it is a
\* symbolic link with the same target at the destination; after a link to a
\* regular file has been mapped, the destination is a regular file with the
\* file's contents and holds no link.
C20_SymlinksPreserved ==
    treeErr # NotCopied =>
        /\ srcTree[<<>>].kind = "dir" =>
               \A q \in DOMAIN srcTree :
                   srcTree[q].kind = "link" =>
                       /\ q \in DOMAIN dstTree
                       /\ dstTree[q].kind = "link"
                       /\ dstTree[q].target = srcTree[q].target
        /\ srcTree[<<>>].kind = "link" =>
               /\ treeErr = ""
               /\ dstTree[<<>>].kind = "file"
               /\ dstTree[<<>>].bytes = "host"
               /\ \A q \in DOMAIN dstTree : dstTree[q].kind # "link"

\* C30: for a regular file whose mode has an execute bit, whatever the
\* destination, the mode DetermineFileMode returns has an execute bit, has
\* the read and write bits of the source, and has the execute bit of every
\* class that has the read bit.
C30_ExecutableStaysExecutable ==
    (destMode # Undetermined /\ ModeDir \notin srcMode
     /\ srcMode \cap ({"u", "g", "o"} \X {"x"}) # {}) =>
        /\ destMode \cap ({"u", "g", "o"} \X {"x"}) # {}
        /\ destMode \cap ({"u", "g", "o"} \X {"r", "w"})
               = srcMode \cap ({"u", "g", "o"} \X {"r", "w"})
        /\ \A c \in {"u", "g", "o"} : <<c, "r">> \in destMode => <<c, "x">> \in destMode

----------------------------------------------------------------------------
(* The initramfs pipeline.                                                 *)

Ran(step) == \E i \in 1..Len(ran) : ran[i] = step

\* C22: an initramfs build starts its steps in the order skeleton, kernel
\* modules, overlay, busybox, init branch (compile init and install agent,
\* or custom init, or nothing), mappings, timestamps, archive, manifest,
\* and the rootfs does not change once the timestamps are normalized.
C22_InitramfsStepOrder ==
    [][ cfg.Strategy = "initramfs" =>
          /\ IsPrefix(ran',
                 <<"setupDirectoryStructure", "installKernelModules",
                   "overlayDockerRootfsIfProvided", "installBusybox">>
                 \o (IF SaysDefault(cfg) THEN <<"compileInit", "installAgent">>
                     ELSE IF cfg.Init.None THEN <<>>
                     ELSE <<"installCustomInit">>)
                 \o <<"applyMappings", "normalizeTimestamps", "createArchive",
                      "generateManifest">>)
          /\ Ran("normalizeTimestamps") => rootfs' = rootfs ]_vars

\* C29: in the rootfs of an initramfs archive, /init is the file a mapping
\* sends to /init when there is one; otherwise it is the compiled init
\* (Default), the custom init with mode 0755 (Custom) or absent (None); and
\* /bin/kestrel is installed in Default mode only.
C29_InitAfterMappings ==
    (cfg.Strategy = "initramfs" /\ output = "cpio.gz") =>
        /\ (\E src \in DOMAIN mappings : mappings[src] = <<"init">>) =>
               /\ rootfs["init"] \in DOMAIN mappings
               /\ mappings[rootfs["init"]] = <<"init">>
        /\ ~(\E src \in DOMAIN mappings : mappings[src] = <<"init">>) =>
               IF SaysDefault(cfg) THEN rootfs["init"] = "compiled"
               ELSE IF cfg.Init.None THEN rootfs["init"] = "absent"
               ELSE rootfs["init"] = cfg.Init.Path /\ rootfs["init.mode"] = "0755"
        /\ rootfs["kestrel"] # "absent" => SaysDefault(cfg)

----------------------------------------------------------------------------
(* Best-effort steps, release order and temp files of a build.             *)

BestEffortSteps == {"installKernelModules", "extractOCIConfig", "normalizeTimestamps"}

\* C27: a failure inside a best-effort step never fails the build: when
\* kernel-module injection, OCI config extraction or the setting of an
\* entry's timestamp has failed, the build does not return that step's error
\* and goes on with the next step.
C27_BestEffortFailureIsWarning ==
    \A i \in 1..Len(failed) :
        failed[i][1] \in BestEffortSteps =>
            ~(result.kind = "error" /\ result.step = failed[i][1])

\* C24: on every exit of a block-image build the resources are released in
\* the reverse of their acquisition: the loop device is detached only when
\* the mount is gone, the scratch directory is removed only when neither a
\* mount nor a loop device is left, and nothing acquired is left at the end.
C24_ReleasedInReverseOrder ==
    [][cfg.Strategy = "oci_rootfs" =>
        /\ (sysLoop' # sysLoop /\ sysLoop' = {}) => sysMounted' = {}
        /\ (TmpDir \in scratch /\ TmpDir \notin scratch') =>
               (sysMounted' = {} /\ sysLoop' = {})
        /\ pc' = "returned" =>
               (TmpDir \notin scratch' /\ sysMounted' = {} /\ sysLoop' = {})]_vars

\* C26: when SourceAgent has returned an error, the temp file it made is
\* not left behind.
C26_NoTempFileAfterSourceError ==
    (\E i \in 1..Len(failed) : failed[i][1] = "installAgent") => AgentTmp \notin scratch

----------------------------------------------------------------------------
(* Sizing of an ext4 image: createImageFile, createFilesystem and          *)
(* shrinkFilesystem of OCIRootfsBuilder.  File sizes are kept in KiB: the  *)
(* image is allocated in KiB and block sizes are multiples of 1024.        *)

minBufferMB == 64
maxBufferMB == 1024

computeBufferMBFixed(configured, sizeKB) == minBufferMB

\* computeBufferMB: the configured buffer when positive, else a quarter of
\* the rootfs size in MB, at least minBufferMB and at most maxBufferMB.
computeBufferMB(configured, sizeKB) ==
    IF configured > 0
    THEN configured
    ELSE LET sizeMB == sizeKB \div 1024
             bufferMB == sizeMB \div 4
         IN IF bufferMB < minBufferMB THEN minBufferMB
            ELSE IF bufferMB > maxBufferMB THEN maxBufferMB
            ELSE bufferMB

\* Rootfs sizes `du -sk` reports, size_buffer_mb settings, and the block
\* sizes mkfs.ext4 picks from mke2fs.conf.
RootfsSizesKB == {40960, 400000, 5000000}
BufferSettings == {0, 16, 512}
BlockSizes == {1024, 4096}

\* What `resize2fs -P` can estimate for a file system of `blocks` blocks.
MinimumEstimates(blocks) ==
    {blocks \div 4, blocks \div 2, blocks - (blocks \div 8), blocks}

SizingStops(err) ==
    /\ shrinkPc' = "failed"
    /\ shrunk' = [shrunk EXCEPT !.resized = FALSE]
    /\ err # NoErr

\* createImageFile: du, then fallocate or dd of rootfs size plus buffer.
Sizing_createImageFile ==
    /\ shrinkPc = "createImageFile"
    /\ \E err \in {NoErr, Err("failed to calculate rootfs size"), Err("dd failed")} :
        IF err = NoErr
        THEN LET bufferMB == computeBufferMB(SizeBufferMB, rootfsKB)
                 bufferKB == bufferMB * 1024
                 totalSizeKB == rootfsKB + bufferKB
             IN /\ imageKB' = totalSizeKB
                /\ shrinkPc' = "createFilesystem"
                /\ shrunk' = shrunk
        ELSE /\ SizingStops(err)
             /\ imageKB' = imageKB
    /\ UNCHANGED <<SizeBufferMB, rootfsKB, blockSize, fsBlocks>>
    /\ UNCHANGED <<pipeVars, symVars, mapVars, confVars, modeVars, treeVars, loopVars,
                   agentVars>>

\* createFilesystem: mkfs.ext4 -F fills the file with blocks of its size.
Sizing_createFilesystem ==
    /\ shrinkPc = "createFilesystem"
    /\ \E err \in {NoErr, Err("mkfs.ext4 failed")}, size \in BlockSizes :
        IF err = NoErr
        THEN /\ blockSize' = size
             /\ fsBlocks' = imageKB \div (size \div 1024)
             /\ shrinkPc' = "shrinkFilesystem"
             /\ shrunk' = shrunk
        ELSE /\ SizingStops(err)
             /\ UNCHANGED <<blockSize, fsBlocks>>
    /\ UNCHANGED <<SizeBufferMB, rootfsKB, imageKB>>
    /\ UNCHANGED <<pipeVars, symVars, mapVars, confVars, modeVars, treeVars, loopVars,
                   agentVars>>

\* shrinkFilesystem for ext4, after mount, copy and unmount (which leave the
\* rootfs directory and the size of the image file alone): dumpe2fs,
\* resize2fs -P, du (a failure or a 0 falls back on the minimum size),
\* resize2fs when the size changes, os.Truncate.
Sizing_shrinkFilesystem ==
    /\ shrinkPc = "shrinkFilesystem"
    /\ \E err \in {NoErr, Err("dumpe2fs failed"), Err("resize2fs -P failed"),
                   Err("resize2fs to target size failed"),
                   Err("failed to truncate image")},
          minBlocks \in MinimumEstimates(fsBlocks),
          duOk \in BOOLEAN :
        LET curBlocks == fsBlocks
            measured == IF duOk THEN rootfsKB ELSE 0
            sizeKB == IF measured = 0 THEN minBlocks * (blockSize \div 1024)
                      ELSE measured
            bufferMB == computeBufferMB(SizeBufferMB, sizeKB)
            bufBlocks0 == (bufferMB * 1024 * 1024) \div blockSize
            bufBlocks == IF bufBlocks0 < 1 THEN 1 ELSE bufBlocks0
            desired0 == minBlocks + bufBlocks
            desiredBlocks == IF desired0 > curBlocks THEN curBlocks ELSE desired0
            read == err \notin {Err("dumpe2fs failed"), Err("resize2fs -P failed")}
            resized == /\ read
                       /\ desiredBlocks < curBlocks
                       /\ err # Err("resize2fs to target size failed")
        IN /\ err = Err("resize2fs to target size failed") => desiredBlocks < curBlocks
           /\ shrunk' = IF read
                        THEN [curBlocks |-> curBlocks, minBlocks |-> minBlocks,
                              rootfsKB |-> measured, imageKB |-> imageKB,
                              desiredBlocks |-> desiredBlocks, resized |-> resized]
                        ELSE shrunk
           /\ fsBlocks' = IF resized THEN desiredBlocks ELSE fsBlocks
           /\ imageKB' = IF err = NoErr THEN desiredBlocks * (blockSize \div 1024)
                         ELSE imageKB
           /\ shrinkPc' = IF err = NoErr THEN "done" ELSE "failed"
    /\ UNCHANGED <<SizeBufferMB, rootfsKB, blockSize>>
    /\ UNCHANGED <<pipeVars, symVars, mapVars, confVars, modeVars, treeVars, loopVars,
                   agentVars>>

InitSizing ==
    /\ BeforeLoad
    /\ ConfigIdle
    /\ FileModeIdle
    /\ CopyTreeIdle
    /\ LoopsIdle
    /\ AgentIdle
    /\ SizeBufferMB \in BufferSettings
    /\ rootfsKB \in RootfsSizesKB
    /\ imageKB = 0
    /\ blockSize = 0
    /\ fsBlocks = 0
    /\ shrinkPc = "createImageFile"
    /\ shrunk = NotShrunk

NextSizing ==
    \/ Sizing_createImageFile
    \/ Sizing_createFilesystem
    \/ Sizing_shrinkFilesystem

SpecSizing == InitSizing /\ [][NextSizing]_vars

Least(a, b) == IF a < b THEN a ELSE b
Most(a, b) == IF a > b THEN a ELSE b

\* The claimed size of the image after a shrink that measured `sizeKB`.
TargetBlocks(sizeKB) ==
    LET rootfs_MB == sizeKB \div 1024
        buffer_MB == IF SizeBufferMB > 0 THEN SizeBufferMB
                     ELSE Most(64, Least(1024, rootfs_MB \div 4))
        buffer_blocks == (buffer_MB * 1024 * 1024) \div blockSize
    IN Least(shrunk.curBlocks, shrunk.minBlocks + buffer_blocks)

ShrinkSucceeded == shrinkPc = "done"

\* The length in KiB of `blocks` blocks of the file system.
KiB(blocks) == blocks * (blockSize \div 1024)

\* The claimed outcome of a successful shrink, for a rootfs of `sizeKB`.
ShrunkAsClaimed(sizeKB) ==
    /\ imageKB = KiB(TargetBlocks(sizeKB))
    /\ shrunk.resized <=> TargetBlocks(sizeKB) < shrunk.curBlocks
    /\ imageKB <= shrunk.imageKB
    /\ imageKB >= KiB(fsBlocks)

\* C28 as stated: after a successful ext4 shrink the image file is exactly
\* target_blocks * block_size long, with the buffer of the allocation policy
\* for the size of the rootfs; the file system is resized only when the
\* target is below its block count, and the file neither grows nor is cut
\* below the file system.
C28_ShrinkTargetFromRootfsSize ==
    ShrinkSucceeded => ShrunkAsClaimed(rootfsKB)

\* C28 amended: the same, where the rootfs size is what du reported to the
\* shrink step, or min_blocks * (block_size / 1024) when du failed or
\* reported 0.
C28_ShrinkTargetFromMeasuredSize ==
    ShrinkSucceeded =>
        ShrunkAsClaimed(IF shrunk.rootfsKB = 0
                        THEN shrunk.minBlocks * (blockSize \div 1024)
                        ELSE shrunk.rootfsKB)

\* A shrink that resized the file system, with the tiered buffer computed
\* from the fallback estimate.
C28_Witness_ShrunkAfterDuFailed ==
    /\ ShrinkSucceeded
    /\ shrunk.resized
    /\ shrunk.rootfsKB = 0
    /\ SizeBufferMB = 0
    /\ imageKB < rootfsKB + 64 * 1024

----------------------------------------------------------------------------
(* Two ext4 builds at once, each by its own OCIRootfsBuilder, on one       *)
(* kernel.  Every command a build executes (losetup, mount, umount,        *)
(* losetup -d) is one step.                                                *)

Builders == {"A", "B"}
Devices == <<"/dev/loop0", "/dev/loop1">>

ImagePathOf(b) == <<b, "fs-image">>         \* filepath.Join(tmpDir, "fs-image" + ext)
MountPointOf(b) == <<b, "mnt">>             \* filepath.Join(tmpDir, "mnt")

Free == [image |-> <<>>, autoclear |-> FALSE]

\* The device `losetup --find` picks: the first that is free, 0 when none.
FirstFree ==
    IF \E i \in 1..Len(Devices) : loops[Devices[i]] = Free
    THEN CHOOSE i \in 1..Len(Devices) :
            /\ loops[Devices[i]] = Free
            /\ \A j \in 1..(i - 1) : loops[Devices[j]] # Free
    ELSE 0

\* Build b goes on to `to`; nothing but builds and the kernel is touched.
BuildMoves(b, to, path, err) ==
    /\ builds' = [builds EXCEPT ![b] = [pc |-> to, LoopDevicePath |-> path,
                                        err |-> IF err = "" THEN @.err ELSE err]]
    /\ UNCHANGED <<pipeVars, symVars, mapVars, confVars, modeVars, treeVars, sizeVars,
                   agentVars>>

\* mountImage, first command: losetup --find --show b.ImagePath.
Two_losetup(b) ==
    /\ builds[b].pc = "losetup"
    /\ IF FirstFree = 0
       THEN /\ BuildMoves(b, "cleanup.umount", "", "losetup failed")
            /\ loops' = loops
       ELSE /\ BuildMoves(b, "mount", Devices[FirstFree], "")
            /\ loops' = [loops EXCEPT ![Devices[FirstFree]] =
                            [image |-> ImagePathOf(b), autoclear |-> FALSE]]
    /\ mounts' = mounts

\* mountImage, second command: mount b.LoopDevicePath b.MountPoint, which
\* fails on a device nothing is attached to.
Two_mount(b) ==
    /\ builds[b].pc = "mount"
    /\ IF loops[builds[b].LoopDevicePath] = Free
       THEN /\ BuildMoves(b, "cleanup.umount", builds[b].LoopDevicePath, "mount failed")
            /\ mounts' = mounts
       ELSE /\ BuildMoves(b, "copyRootfsToImage", builds[b].LoopDevicePath, "")
            /\ mounts' = [mounts EXCEPT ![MountPointOf(b)] = builds[b].LoopDevicePath]
    /\ loops' = loops

\* copyRootfsToImage, shrinkFilesystem and moveToFinal run no command on
\* mounts or loop devices.
Two_step(b) ==
    /\ builds[b].pc \in {"copyRootfsToImage", "shrinkFilesystem"}
    /\ BuildMoves(b, IF builds[b].pc = "copyRootfsToImage" THEN "umount"
                     ELSE "cleanup.umount", builds[b].LoopDevicePath, "")
    /\ UNCHANGED <<loops, mounts>>

\* unmountImage, first command: umount b.MountPoint ("not mounted" is not
\* an error).  The kernel detaches a device marked autoclear with its last
\* user.
Two_umount(b) ==
    /\ builds[b].pc \in {"umount", "cleanup.umount"}
    /\ BuildMoves(b, IF builds[b].pc = "umount" THEN "losetup -d"
                     ELSE "cleanup.losetup -d", builds[b].LoopDevicePath, "")
    /\ LET dev == mounts[MountPointOf(b)]
       IN IF dev = ""
          THEN UNCHANGED <<loops, mounts>>
          ELSE /\ mounts' = [mounts EXCEPT ![MountPointOf(b)] = ""]
               /\ loops' = IF loops[dev].autoclear
                           THEN [loops EXCEPT ![dev] = Free]
                           ELSE loops

\* unmountImage, second command: losetup -d b.LoopDevicePath when the path
\* is set ("No such device" is not an error).  The kernel detaches a device
\* that is mounted lazily: it marks it autoclear.
Two_detach(b) ==
    /\ builds[b].pc \in {"losetup -d", "cleanup.losetup -d"}
    /\ BuildMoves(b, IF builds[b].pc = "losetup -d" THEN "shrinkFilesystem"
                     ELSE "returned", builds[b].LoopDevicePath, "")
    /\ LET dev == builds[b].LoopDevicePath
       IN IF dev = ""
          THEN loops' = loops
          ELSE IF loops[dev] = Free
          THEN loops' = loops
          ELSE IF \E m \in DOMAIN mounts : mounts[m] = dev
          THEN loops' = [loops EXCEPT ![dev].autoclear = TRUE]
          ELSE loops' = [loops EXCEPT ![dev] = Free]
    /\ mounts' = mounts

\* Loop devices other programs of the host hold at the start.
HostLoops ==
    [ {Devices[i] : i \in 1..Len(Devices)} ->
        {Free, [image |-> <<"host", "disk.img">>, autoclear |-> FALSE]} ]

InitTwoBuilds ==
    /\ BeforeLoad
    /\ ConfigIdle
    /\ FileModeIdle
    /\ CopyTreeIdle
    /\ SizingIdle
    /\ AgentIdle
    /\ builds = [b \in Builders |-> [pc |-> "losetup", LoopDevicePath |-> "", err |-> ""]]
    /\ loops \in HostLoops
    /\ mounts = [m \in {MountPointOf(b) : b \in Builders} |-> ""]

NextTwoBuilds ==
    \/ \E b \in Builders : Two_losetup(b)
    \/ \E b \in Builders : Two_mount(b)
    \/ \E b \in Builders : Two_step(b)
    \/ \E b \in Builders : Two_umount(b)
    \/ \E b \in Builders : Two_detach(b)

SpecTwoBuilds == InitTwoBuilds /\ [][NextTwoBuilds]_vars

\* C25: the repeat of unmount-and-detach by the deferred cleanup, after the
\* 'Unmount image' step released mount and device, unmounts and detaches
\* nothing and leaves the build's result alone; and no command of one build
\* touches a loop device that holds the other build's image.
C25_CleanupRepeatTouchesNothing ==
    [][\A b \in Builders :
        /\ (builds[b].pc \in {"cleanup.umount", "cleanup.losetup -d"}
            /\ builds'[b] # builds[b] /\ builds[b].err = "")
               => (loops' = loops /\ mounts' = mounts /\ builds'[b].err = "")
        /\ \A i \in 1..Len(Devices) :
             (loops[Devices[i]].image = ImagePathOf(b)
              /\ loops'[Devices[i]] # loops[Devices[i]])
               => builds'[b] # builds[b]]_vars

----------------------------------------------------------------------------
(* SourceAgent with the local strategy and CleanupAgent, on a disk with    *)
(* symlinks.  A path is the sequence of its components from the root; the  *)
(* disk maps the physical path of every entry to what is there.  The       *)
(* release and http strategies are part of Spec.                           *)

TempDir == <<"tmp">>            \* os.TempDir()

MaxLinks == 2                   \* symlinks followed in one lookup

Mode0600 == {"u"} \X {"r", "w"}

\* The kernel's lookup of `rest` from the directory `cur`: the physical
\* path of the entry, symlinks of the directories followed and ".." taken
\* from the directory reached; the path of a missing last component; the
\* empty string when the lookup fails before.
RECURSIVE Lookup(_, _, _, _, _)
Lookup(d, cur, rest, follow, fuel) ==
    IF rest = <<>> THEN cur
    ELSE LET c == Head(rest)
             more == Tail(rest)
             next == Append(cur, c)
         IN IF c = ".."
            THEN Lookup(d, IF cur = <<>> THEN <<>> ELSE Front(cur), more, follow, fuel)
            ELSE IF next \notin DOMAIN d
            THEN IF more = <<>> THEN next ELSE EmptyString
            ELSE IF d[next].kind = "link" /\ ~(more = <<>> /\ ~follow)
            THEN IF fuel = 0 THEN EmptyString
                 ELSE Lookup(d, <<>>, d[next].target \o more, follow, fuel - 1)
            ELSE IF d[next].kind = "file" /\ more # <<>> THEN EmptyString
            ELSE Lookup(d, next, more, follow, fuel)

\* os.Stat: what the path leads to, links followed.
Stat(d, path) ==
    LET q == Lookup(d, <<>>, path, TRUE, MaxLinks)
    IN IF q = <<>> THEN DirNode
       ELSE IF q \in DOMAIN d THEN d[q]
       ELSE Missing

\* filepath.EvalSymlinks, whose error the callers drop: the physical path,
\* or the empty string.
EvalSymlinks(d, path) ==
    LET q == Lookup(d, <<>>, path, TRUE, MaxLinks)
    IN IF q = <<>> THEN q
       ELSE IF q \in DOMAIN d THEN q
       ELSE EmptyString

\* filepath.Dir: all but the last element, cleaned lexically.
Dir(path) == Clean(Front(path))

Without(d, q) == [p \in DOMAIN d \ {q} |-> d[p]]

\* os.Remove: unlinks what the kernel finds at the path, the last component
\* not followed; a directory only when it is empty.
Remove(d, path) ==
    LET q == Lookup(d, <<>>, path, FALSE, MaxLinks)
    IN IF q \notin DOMAIN d THEN d
       ELSE IF d[q].kind = "dir" /\ \E p \in DOMAIN d : p # q /\ IsPrefix(q, p) THEN d
       ELSE Without(d, q)

\* The temp file of os.CreateTemp("", "fledge-agent-*"): a name not taken.
TmpPath == Append(TempDir, "fledge-agent-1")

CopiedAgentPrivate(src) == FileNode(src.bytes, Mode0600)

\* The temp file after io.Copy and os.Chmod(tmpPath, 0755).
CopiedAgent(src) == FileNode(src.bytes, Mode0755)

Returns(path, err) == [path |-> path, err |-> err]

\* What can go wrong in sourceAgentFromLocal once the source is there.
Faults == {"none", "CreateTemp", "Open", "Create", "Copy", "Chmod"}

\* sourceAgentFromLocal: the disk it leaves and what it returns.  The temp
\* file is removed when io.Copy or os.Chmod fails; not when os.Open or
\* os.Create fails.
sourceAgentFromLocalOnDisk(d, localPath, fault) ==
    LET info == Stat(d, localPath)
        tmp == Lookup(d, <<>>, TmpPath, TRUE, MaxLinks)
        created == WithEntry(d, tmp, FileNode("", Mode0600))
    IN IF info.kind = "missing"
       THEN <<d, Returns(EmptyString, "agent path does not exist")>>
       ELSE IF info.kind = "dir"
       THEN <<d, Returns(EmptyString, "agent path is a directory")>>
       ELSE CASE fault = "CreateTemp" ->
                    <<d, Returns(EmptyString, "failed to create temp file")>>
              [] fault = "Open" ->
                    <<created, Returns(EmptyString, "failed to open source agent")>>
              [] fault = "Create" ->
                    <<created, Returns(EmptyString, "failed to create destination")>>
              [] fault = "Copy" ->
                    <<Remove(created, TmpPath), Returns(EmptyString, "failed to copy agent")>>
              [] fault = "Chmod" ->
                    <<Remove(created, TmpPath),
                      Returns(EmptyString, "failed to make agent executable")>>
              [] OTHER ->
                    <<WithEntry(d, tmp, CopiedAgent(info)), Returns(TmpPath, "")>>

\* SourceAgent for a nil config, the local strategy and an unknown one.
SourceAgentOnDisk(d, call) ==
    IF ~call.present
    THEN <<d, Returns(EmptyString, "agent configuration is nil")>>
    ELSE IF call.SourceStrategy = "local"
    THEN sourceAgentFromLocalOnDisk(d, call.Path, call.fault)
    ELSE <<d, Returns(EmptyString, "unknown agent source strategy")>>

\* CleanupAgent: the disk it leaves.
CleanupAgentOnDisk(d, agentPath) ==
    IF agentPath = EmptyString THEN d
    ELSE LET dir == Dir(agentPath)
             tmpDir == TempDir
             resolvedDir == EvalSymlinks(d, dir)
             resolvedTmpDir == EvalSymlinks(d, tmpDir)
             isTempFile ==
                 IF resolvedDir = resolvedTmpDir THEN TRUE
                 ELSE IF dir = tmpDir THEN TRUE
                 ELSE /\ resolvedDir # EmptyString
                      /\ resolvedTmpDir # EmptyString
                      /\ resolvedDir = resolvedTmpDir
         IN IF isTempFile THEN Remove(d, agentPath) ELSE d

\* A disk: /tmp a directory or a link to /private/tmp; in it the temp file
\* of an earlier build and x, which is absent, a directory holding a file,
\* or a link to /home/bin; /home/kestrel is the user's own agent binary.
Layout(tmpIsLink, x) ==
    LET T == IF tmpIsLink THEN <<"private", "tmp">> ELSE <<"tmp">>
        entries ==
            { <<<<"home">>, DirNode>>,
              <<<<"home", "bin">>, DirNode>>,
              <<<<"home", "kestrel">>, FileNode("user", Mode0644)>>,
              <<T, DirNode>>,
              <<Append(T, "fledge-agent-0"), FileNode("old", Mode0755)>> }
            \cup (IF tmpIsLink
                  THEN { <<<<"private">>, DirNode>>, <<<<"tmp">>, LinkNode(T)>> }
                  ELSE {})
            \cup (CASE x = "dir" -> { <<Append(T, "x"), DirNode>>,
                                      <<T \o <<"x", "kestrel">>, FileNode("sub", Mode0755)>> }
                    [] x = "link" -> { <<Append(T, "x"), LinkNode(<<"home", "bin">>)>> }
                    [] OTHER -> {})
    IN [p \in {e[1] : e \in entries} |-> (CHOOSE e \in entries : e[1] = p)[2]]

Disks == {Layout(t, x) : t \in BOOLEAN, x \in {"absent", "dir", "link"}}

AgentCalls ==
    { [NoCall EXCEPT !.op = "SourceAgent"] }
    \cup { [op |-> "SourceAgent", present |-> TRUE, SourceStrategy |-> s, Path |-> p,
            fault |-> f, before |-> <<>>] :
            s \in {"local", "bogus"},
            p \in { <<"home", "kestrel">>, <<"home", "missing">>, <<"home">>,
                    <<"tmp", "x">>, <<"tmp", "x", "kestrel">> },
            f \in Faults }

CleanupPaths ==
    { EmptyString, <<"tmp", "fledge-agent-0">>, <<"private", "tmp", "fledge-agent-0">>,
      <<"home", "kestrel">>, <<"tmp", "x", "kestrel">>, <<"tmp", "x", "..", "kestrel">>,
      <<"tmp", "gone">> }

CallSourceAgent ==
    /\ agentCall.op = "none"
    /\ \E call \in AgentCalls :
        LET out == SourceAgentOnDisk(disk, call)
        IN /\ agentCall' = [call EXCEPT !.before = disk]
           /\ disk' = out[1]
           /\ agentRet' = out[2]
    /\ UNCHANGED <<pipeVars, symVars, mapVars, confVars, modeVars, treeVars, sizeVars,
                   loopVars>>

\* CleanupAgent of any path, or, as the builders defer it, of the path
\* SourceAgent returned.
CallCleanupAgent ==
    /\ agentCall.op # "CleanupAgent"
    /\ \E agentPath \in IF agentCall.op = "none" THEN CleanupPaths ELSE {agentRet.path} :
        /\ agentCall' = [NoCall EXCEPT !.op = "CleanupAgent", !.Path = agentPath,
                                       !.before = disk]
        /\ disk' = CleanupAgentOnDisk(disk, agentPath)
    /\ agentCall.op = "SourceAgent" => agentRet.err = ""
    /\ agentRet' = agentRet
    /\ UNCHANGED <<pipeVars, symVars, mapVars, confVars, modeVars, treeVars, sizeVars,
                   loopVars>>

InitAgent ==
    /\ BeforeLoad
    /\ ConfigIdle
    /\ FileModeIdle
    /\ CopyTreeIdle
    /\ SizingIdle
    /\ LoopsIdle
    /\ disk \in Disks
    /\ agentCall = NoCall
    /\ agentRet = NotReturned

NextAgent ==
    \/ CallSourceAgent
    \/ CallCleanupAgent

SpecAgent == InitAgent /\ [][NextAgent]_vars

\* C21: CleanupAgent removes a file only when the directory that holds it is
\* the temp root, links resolved: whatever it removed lay there, a path in
\* any other directory still exists afterwards, and the empty path changes
\* nothing.
C21_OnlyTempFilesRemoved ==
    agentCall.op = "CleanupAgent" =>
        /\ \A p \in DOMAIN agentCall.before :
              p \notin DOMAIN disk =>
                  Front(p) = EvalSymlinks(agentCall.before, TempDir)
        /\ agentCall.Path = EmptyString => disk = agentCall.before

SourceOf(call) == Stat(call.before, call.Path)

=============================================================================
